---- MODULE Spec2Model ----
(***************************************************************************)
(* A model of the interledger-relay connector: the routing engine          *)
(* (DynamicRoute health, RoutingTable construction and resolution,         *)
(* RouterService::forward) and the outbound HTTP client.                   *)
(*                                                                         *)
(* Conventions.                                                            *)
(*  - Byte strings are sequences of byte values.                           *)
(*  - Option<T> is a sequence of length at most one: None == <<>>.         *)
(*  - time::Instant and time::Duration are counted in whole minutes, so    *)
(*    MAX_WINDOW_DURATION (from_secs(5 * 60)) is 5.                        *)
(*  - f64 ratios (fail_ratio, partition fractions, hash positions) are     *)
(*    exact rationals; comparisons are done by cross multiplication.       *)
(***************************************************************************)
EXTENDS Integers, Sequences, FiniteSets, TLC

VARIABLES
    now,          \* time::Instant::now()
    debug_build,  \* the build has debug assertions and overflow checks
    routes,       \* RouterService.data.routes: the RoutingTable
    table_src,    \* history: how the current table was built
    fails_in_row, \* history: consecutive failed outcomes applied to route (1,1)
    fresh_fails,  \* history: failures of an unbroken run from a fresh window, or -1
    req,          \* the request being forwarded by RouterService / Client
    pre_stop_path, \* Config.pre_stop_path
    stopping,     \* PreStopFilter: FilterData.stopping
    pre_stop,     \* the GET to pre_stop_path being handled, and its drain
    logger,       \* BigQueryService.logger
    conn,         \* the HTTP request (any other than a pre-stop GET) being handled
    updaters,     \* calls of DynamicRoute::update running concurrently
    stop_calls,   \* calls of PreStopFilter::call for GETs to pre_stop_path
    logger_queue  \* one LoggerQueue: LoggerData, its insert task, and history

\* The variables of the specifications of concurrent calls.
concurrent_vars == <<updaters, stop_calls, logger_queue>>

\* What no step of the router or of the ingress changes: the build, and the
\* variables of the specifications of concurrent calls.
build_vars == <<debug_build, concurrent_vars>>

router_vars ==
    <<now, build_vars, routes, table_src, fails_in_row, fresh_fails, req>>

ingress_vars == <<pre_stop_path, stopping, pre_stop, logger, conn>>

vars == <<router_vars, ingress_vars>>

----------------------------------------------------------------------------
(* Bounds of the model. *)

\* The clock stops advancing at MaxNow.
MaxNow == 7

\* The largest window_size of the routes whose health is explored alone.
MaxWindowSize == 3

\* No more than MaxFailsInRow failed outcomes are applied in a row.
MaxFailsInRow == 4

\* The clock of the router specification stops advancing at MaxRouterNow.
MaxRouterNow == 3

\* The longest list of routes, and the most prefixes of a route map, that a
\* routing table is built from.
MaxRoutes == 3

----------------------------------------------------------------------------
(* Option, bytes *)

None == <<>>

Some(x) == <<x>>

is_some(o) == Len(o) = 1

unwrap(o) == o[1]

\* No HTTP request is being handled.  Of a request being handled, conn keeps
\* the request, whether the stopping flag was set when it arrived, the
\* services that saw the request (calls) and then its result (returns), in
\* order, the Prepare given to the router, the instant at which the
\* ExpiryService was called and the duration of its timeout, whether the
\* BigQueryService logs the Fulfill, the result of the services and the HTTP
\* response.
IdleConn ==
    [pc |-> "idle", request |-> None, arrived_stopping |-> FALSE,
     parsed |-> FALSE, calls |-> <<>>, returns |-> <<>>, outgoing |-> None,
     called_at |-> 0, timeout |-> None, logs |-> FALSE, result |-> None,
     response |-> None]

\* No GET to pre_stop_path is being handled.  attempts counts the polls of
\* BigQueryService::stop; flag_first and stopped are history: the flag was
\* set when the stop callback started, the callback's future has completed.
IdlePreStop ==
    [pc |-> "idle", attempts |-> 0, flag_first |-> FALSE, stopped |-> FALSE,
     response |-> None]

\* `Logger::default()`: the logger of a connector without big_query_service.
DummyLogger ==
    [dummy |-> TRUE, batch_capacity |-> 0, queue |-> <<>>, batch |-> <<>>,
     batch_in_progress |-> FALSE, inserting |-> None]

\* The connector's ingress as the specifications of the routing engine leave
\* it: no pre_stop_path, no big_query_service, no request.
\* No concurrent calls are modelled.
ConcurrentOff ==
    /\ updaters = <<>>
    /\ stop_calls = <<>>
    /\ logger_queue = None

IngressOff ==
    /\ ConcurrentOff
    /\ pre_stop_path = None
    /\ stopping = FALSE
    /\ pre_stop = IdlePreStop
    /\ logger = DummyLogger
    /\ conn = IdleConn

\* slice::starts_with
starts_with(s, prefix) ==
    /\ Len(prefix) <= Len(s)
    /\ \A i \in 1..Len(prefix) : s[i] = prefix[i]

----------------------------------------------------------------------------
(* services/router/dynamic_route.rs *)

MAX_WINDOW_DURATION == 5

\* The value a usize takes when `0 - 1` wraps (usize::MAX), as far as TLC's
\* integers reach.
USIZE_MAX == 2147483647

Infallible == [kind |-> "Infallible"]

Healthy(remaining, failures, updated_at) ==
    [kind |-> "Healthy", remaining |-> remaining, failures |-> failures,
     updated_at |-> updated_at]

Unhealthy(until) == [kind |-> "Unhealthy", until |-> until]

\* The status lock after a thread panicked while holding its write guard:
\* every later `status.read().unwrap()` / `status.write().unwrap()` panics.
Poisoned == [kind |-> "Poisoned"]

RouteFailover(window_size, fail_ratio, fail_duration) ==
    [window_size |-> window_size, fail_ratio |-> fail_ratio,
     fail_duration |-> fail_duration]

\* The ratio test with `<` for `<=`.
ratio_exceeded(failover, failures) ==
    failover.fail_ratio.num * failover.window_size
        < failures * failover.fail_ratio.den

\* `failover.fail_ratio <= failures as f64 / window_size as f64`
ratio_reached(failover, failures) ==
    failover.fail_ratio.num * failover.window_size
        <= failures * failover.fail_ratio.den

\* DynamicRoute::new
DynamicRoute_new(config, t) ==
    [config |-> config,
     status |-> IF is_some(config.failover)
                THEN Healthy(unwrap(config.failover).window_size, 0, t)
                ELSE Infallible]

\* `self.status.read().unwrap()` panics: the status lock is poisoned.
status_panics(route) == route.status.kind = "Poisoned"

\* is_available that counts an Unhealthy route as available one second
\* before `until`.
is_available_before_until(route, t) ==
    CASE route.status.kind = "Infallible" -> TRUE
      [] route.status.kind = "Healthy"    -> TRUE
      [] route.status.kind = "Unhealthy"  -> route.status.until <= t + 1
      [] OTHER                            -> FALSE

\* is_available with `until <= now` for `until < now`.
is_available_at_until(route, t) ==
    CASE route.status.kind = "Infallible" -> TRUE
      [] route.status.kind = "Healthy"    -> TRUE
      [] route.status.kind = "Unhealthy"  -> route.status.until <= t
      [] OTHER                            -> FALSE

\* DynamicRoute::is_available, for a route whose status lock is not poisoned
\* (status_panics tells when the call panics instead).
is_available(route, t) ==
    CASE route.status.kind = "Infallible" -> TRUE
      [] route.status.kind = "Healthy"    -> TRUE
      [] route.status.kind = "Unhealthy"  -> route.status.until < t
      [] OTHER                            -> FALSE

\* The Healthy arm of update_with_now, from the counters (remaining, failures)
\* left by the window-duration check.
update_healthy(failover, remaining, failures, fails, t) ==
    IF remaining = 0 /\ debug_build
    THEN Poisoned   \* `*remaining -= 1`: attempt to subtract with overflow
    ELSE LET remaining1 == IF remaining = 0 THEN USIZE_MAX ELSE remaining - 1
             failures1 == failures + fails
         IN  IF ratio_reached(failover, failures1)
             THEN Unhealthy(t + failover.fail_duration)
             ELSE IF remaining1 = 0
             THEN Healthy(failover.window_size, 0, t)
             ELSE Healthy(remaining1, failures1, t)

\* An update_with_now that starts a fresh window whenever a route recovers.
update_with_now_recover_fresh(route, is_success, t) ==
    LET fails == IF is_success THEN 0 ELSE 1
        status == route.status
    IN  CASE status.kind = "Infallible" -> status
          [] status.kind = "Poisoned" -> status
          [] status.kind = "Healthy" ->
                LET failover == unwrap(route.config.failover)
                    reset == t - status.updated_at > MAX_WINDOW_DURATION
                IN  update_healthy(
                        failover,
                        IF reset THEN failover.window_size ELSE status.remaining,
                        IF reset THEN 0 ELSE status.failures,
                        fails, t)
          [] status.kind = "Unhealthy" ->
                IF t < status.until
                THEN status
                ELSE LET failover == unwrap(route.config.failover)
                     IN  Healthy(failover.window_size, 0, t)

\* An update_with_now in which a failure extends the unhealthy period.
update_with_now_extends_until(route, is_success, t) ==
    LET fails == IF is_success THEN 0 ELSE 1
        status == route.status
    IN  CASE status.kind = "Infallible" -> status
          [] status.kind = "Poisoned" -> status
          [] status.kind = "Healthy" ->
                LET failover == unwrap(route.config.failover)
                    reset == t - status.updated_at > MAX_WINDOW_DURATION
                IN  update_healthy(
                        failover,
                        IF reset THEN failover.window_size ELSE status.remaining,
                        IF reset THEN 0 ELSE status.failures,
                        fails, t)
          [] status.kind = "Unhealthy" ->
                LET failover == unwrap(route.config.failover)
                IN  IF t < status.until
                    THEN IF is_success THEN status
                         ELSE Unhealthy(t + failover.fail_duration)
                    ELSE Healthy(failover.window_size - fails, fails, t)

\* DynamicRoute::update_with_now: the status after the outcome is applied.
update_with_now(route, is_success, t) ==
    LET fails == IF is_success THEN 0 ELSE 1
        status == route.status
    IN  CASE status.kind = "Infallible" -> status
          [] status.kind = "Poisoned" -> status
          [] status.kind = "Healthy" ->
                LET failover == unwrap(route.config.failover)
                    reset == t - status.updated_at > MAX_WINDOW_DURATION
                IN  update_healthy(
                        failover,
                        IF reset THEN failover.window_size ELSE status.remaining,
                        IF reset THEN 0 ELSE status.failures,
                        fails, t)
          [] status.kind = "Unhealthy" ->
                IF t < status.until
                THEN status
                ELSE LET failover == unwrap(route.config.failover)
                     IN  Healthy(failover.window_size - fails, fails, t)

----------------------------------------------------------------------------
(* services/router/static_route.rs *)

DOT == 46

StaticRoute(target_prefix, next_hop, failover, partition) ==
    [target_prefix |-> target_prefix, next_hop |-> next_hop,
     failover |-> failover, partition |-> partition]

Bilateral(endpoint, auth) ==
    [type |-> "Bilateral", endpoint |-> endpoint, auth |-> auth]

Multilateral(endpoint_prefix, endpoint_suffix, auth) ==
    [type |-> "Multilateral", endpoint_prefix |-> endpoint_prefix,
     endpoint_suffix |-> endpoint_suffix, auth |-> auth]

\* validate_address_segment: non-empty, bytes in [A-Za-z0-9_-].
validate_address_segment(segment) ==
    /\ Len(segment) > 0
    /\ \A i \in 1..Len(segment) :
          \/ segment[i] = 45 \/ segment[i] = 95
          \/ (65 <= segment[i] /\ segment[i] <= 90)
          \/ (97 <= segment[i] /\ segment[i] <= 122)
          \/ (48 <= segment[i] /\ segment[i] <= 57)

\* `destination[segment_offset..].split(|&byte| byte == b'.').next()`
first_segment(rest) ==
    LET dots == {i \in 1..Len(rest) : rest[i] = DOT}
        end == IF dots = {} THEN Len(rest)
               ELSE (CHOOSE i \in dots : \A j \in dots : i <= j) - 1
    IN  SubSeq(rest, 1, end)

\* parse_address_segment: Some(segment) or None.
parse_address_segment(target_prefix, destination) ==
    LET segment == first_segment(
            SubSeq(destination, Len(target_prefix) + 1, Len(destination)))
    IN  IF validate_address_segment(segment) THEN Some(segment) ELSE None

\* The debug_assert! of StaticRoute::endpoint fails (or indexes past the end
\* of the destination), which panics in a debug build.
endpoint_assert_fails(config, connector_addr, destination_addr) ==
    /\ config.next_hop.type = "Multilateral"
    /\ ~ ( /\ starts_with(destination_addr, connector_addr)
           /\ Len(destination_addr) > Len(connector_addr)
           /\ destination_addr[Len(connector_addr) + 1] = DOT )

\* StaticRoute::endpoint: Some(uri) or None (RouterError).  A derived URI is
\* the triple <<endpoint_prefix, segment, endpoint_suffix>>.
endpoint(config, connector_addr, destination_addr) ==
    IF config.next_hop.type = "Bilateral"
    THEN Some(config.next_hop.endpoint)
    ELSE LET segment ==
                 parse_address_segment(config.target_prefix, destination_addr)
         IN  IF is_some(segment)
             THEN Some(<<config.next_hop.endpoint_prefix, unwrap(segment),
                         config.next_hop.endpoint_suffix>>)
             ELSE None

\* StaticRoute::auth
auth(config) == config.next_hop.auth

----------------------------------------------------------------------------
(* services/router/partition.rs *)

\* Positions in [0.0, 1.0] are the multiples of 1/HashMax.
HashMax == 4

\* hash: DefaultHasher is not modelled bit for bit; this stands for it as a
\* fixed function of the bytes, giving the numerator of a position over
\* HashMax (`hasher.finish() as f64 / u64::MAX as f64`).
RECURSIVE hash_bytes(_, _)
hash_bytes(data, acc) ==
    IF data = <<>> THEN acc
    ELSE hash_bytes(Tail(data), (acc * 31 + Head(data)) % (HashMax + 1))

hash(data) == hash_bytes(data, 7 % (HashMax + 1))

\* RoutingPartition::find
find(partition_by, prepare) ==
    hash(IF partition_by = "Destination"
         THEN prepare.destination
         ELSE prepare.execution_condition)

----------------------------------------------------------------------------
(* services/router/table.rs *)

RouteIndex(group_index, route_index) ==
    [group_index |-> group_index, route_index |-> route_index]

\* The loop of RoutingTable::new: push each route into the group of its
\* target_prefix, or into a new group at the end.
RECURSIVE group_routes(_, _, _)
group_routes(list, groups, t) ==
    IF list = <<>> THEN groups
    ELSE LET route == Head(list)
             existing == {i \in 1..Len(groups) :
                            groups[i].target_prefix = route.target_prefix}
         IN  IF existing # {}
             THEN LET i == CHOOSE i \in existing : TRUE
                  IN  group_routes(Tail(list),
                        [groups EXCEPT ![i].routes =
                            Append(@, DynamicRoute_new(route, t))], t)
             ELSE group_routes(Tail(list),
                        Append(groups,
                            [target_prefix |-> route.target_prefix,
                             routes |-> <<DynamicRoute_new(route, t)>>]), t)

\* RoutingTable::new
RoutingTable_new(list, partition_by, t) ==
    [partition_by |-> partition_by, groups |-> group_routes(list, <<>>, t)]

\* The groups whose target_prefix the destination starts with.
matching_groups(table, destination) ==
    {i \in 1..Len(table.groups) :
        starts_with(destination, table.groups[i].target_prefix)}

\* resolve_group that skips the groups whose routes are all Unhealthy, as
\* long as another group matches.
resolve_group_fallback(table, destination) ==
    LET matching == matching_groups(table, destination)
        serving == {i \in matching :
                        \E r \in 1..Len(table.groups[i].routes) :
                            table.groups[i].routes[r].status.kind # "Unhealthy"}
        from == IF serving # {} THEN serving ELSE matching
    IN  IF from = {} THEN 0
        ELSE CHOOSE i \in from : \A j \in from : i <= j

\* resolve_group that gives the first group of the table when no group
\* matches.
resolve_group_default(table, destination) ==
    LET matching == matching_groups(table, destination)
    IN  IF matching = {} THEN (IF Len(table.groups) > 0 THEN 1 ELSE 0)
        ELSE CHOOSE i \in matching : \A j \in matching : i <= j

\* RoutingTable::resolve_group: the index of the first group whose
\* target_prefix the destination starts with; 0 for None.
resolve_group(table, destination) ==
    LET matching == matching_groups(table, destination)
    IN  IF matching = {} THEN 0
        ELSE CHOOSE i \in matching : \A j \in matching : i <= j

\* The members of a set of indexes, in increasing order from i to n: the
\* order in which `group.routes.iter().enumerate().filter(..)` yields them.
RECURSIVE ascending(_, _, _)
ascending(indexes, i, n) ==
    IF i > n THEN <<>>
    ELSE IF i \in indexes THEN <<i>> \o ascending(indexes, i + 1, n)
    ELSE ascending(indexes, i + 1, n)

RECURSIVE sum_partitions(_, _)
sum_partitions(group_routes_, indexes) ==
    IF indexes = <<>> THEN 0
    ELSE group_routes_[Head(indexes)].config.partition
            + sum_partitions(group_routes_, Tail(indexes))

\* The `while let` loop of resolve.  The position is position_num /
\* (HashMax * total); `position <= fraction` is position_num <= partition *
\* HashMax, and is false when total is 0 (the fraction is NaN).  0 for "the
\* iterator is empty".
RECURSIVE walk_routes(_, _, _, _)
walk_routes(group_routes_, indexes, position_num, total) ==
    IF indexes = <<>> THEN 0
    ELSE LET i == Head(indexes)
             fraction_num == group_routes_[i].config.partition * HashMax
         IN  IF (total > 0 /\ position_num <= fraction_num)
                  \/ Tail(indexes) = <<>>
             THEN i
             ELSE walk_routes(group_routes_, Tail(indexes),
                              position_num - fraction_num, total)

Resolved(kind, group_index, route_index) ==
    [kind |-> kind, index |-> RouteIndex(group_index, route_index)]

\* RoutingTable::resolve: Ok with the RouteIndex, NoRoute, NoHealthyRoute, or
\* Panic when a status lock of the group is poisoned.
resolve(table, prepare, t) ==
    LET group_index == resolve_group(table, prepare.destination)
    IN  IF group_index = 0 THEN Resolved("NoRoute", 0, 0)
        ELSE
        LET group == table.groups[group_index]
            available_routes ==
                ascending({i \in 1..Len(group.routes) :
                              is_available(group.routes[i], t)},
                          1, Len(group.routes))
            total_partitions == sum_partitions(group.routes, available_routes)
            position == IF Len(group.routes) > 1
                        THEN find(table.partition_by, prepare) ELSE 0
            route_index == walk_routes(group.routes, available_routes,
                                position * total_partitions, total_partitions)
        IN  IF \E i \in 1..Len(group.routes) : status_panics(group.routes[i])
            THEN Resolved("Panic", 0, 0)
            ELSE IF route_index # 0
            THEN Resolved("Ok", group_index, route_index)
            ELSE Resolved("NoHealthyRoute", 0, 0)

\* `self.groups[index.group_index].routes[index.route_index]` is in bounds.
index_in_bounds(table, index) ==
    /\ index.group_index \in 1..Len(table.groups)
    /\ index.route_index \in 1..Len(table.groups[index.group_index].routes)

route_at(table, index) ==
    table.groups[index.group_index].routes[index.route_index]

\* RoutingTable::update panics: the index is out of bounds, or the status
\* lock is poisoned.
update_panics(table, index) ==
    \/ ~ index_in_bounds(table, index)
    \/ status_panics(route_at(table, index))

\* RoutingTable::update, when it does not panic before taking the write lock.
table_update(table, index, is_success, t) ==
    [table EXCEPT
        !.groups[index.group_index].routes[index.route_index].status =
            update_with_now(route_at(table, index), is_success, t)]

----------------------------------------------------------------------------
(* services/router/serde.rs *)

\* `String::cmp`: byte-wise lexicographic order.
lex_less(a, b) ==
    \/ Len(a) < Len(b) /\ starts_with(b, a)
    \/ \E i \in 1..Len(a) :
          /\ i <= Len(b)
          /\ a[i] < b[i]
          /\ \A j \in 1..(i - 1) : a[j] = b[j]

\* The comparator without `.reverse()`: shortest first.
prefix_before_shortest(prefix_1, prefix_2) ==
    \/ Len(prefix_1) < Len(prefix_2)
    \/ Len(prefix_1) = Len(prefix_2) /\ lex_less(prefix_1, prefix_2)

\* The comparator of `prefixes.sort_unstable_by`: longest first, then
\* alphabetical.
prefix_before(prefix_1, prefix_2) ==
    \/ Len(prefix_1) > Len(prefix_2)
    \/ Len(prefix_1) = Len(prefix_2) /\ lex_less(prefix_1, prefix_2)

\* The keys of the map, sorted by the comparator (the keys are distinct, so
\* the sorted order is unique).
sorted_by(prefixes) ==
    CHOOSE sorted \in [1..Cardinality(prefixes) -> prefixes] :
        \A i, j \in 1..Cardinality(prefixes) :
            i < j => prefix_before(sorted[i], sorted[j])

\* The StaticRoutes of one prefix, in the order of its Vec<RouteData>.
routes_of_prefix(prefix, route_datas) ==
    [i \in 1..Len(route_datas) |->
        StaticRoute(prefix, route_datas[i].next_hop, route_datas[i].failover,
                    route_datas[i].partition)]

RECURSIVE concat_routes(_, _)
concat_routes(prefixes, routes_by_prefix) ==
    IF prefixes = <<>> THEN <<>>
    ELSE routes_of_prefix(Head(prefixes), routes_by_prefix[Head(prefixes)])
            \o concat_routes(Tail(prefixes), routes_by_prefix)

\* RoutingTableData::deserialize, from the parsed RouteMap
\* (HashMap<String, Vec<RouteData>>) to the Vec<StaticRoute>.
deserialize(routes_by_prefix) ==
    concat_routes(sorted_by(DOMAIN routes_by_prefix), routes_by_prefix)

----------------------------------------------------------------------------
(* combinators/limit_stream.rs, combinators/http.rs *)

\* LimitStream::poll_next over the chunks of a body, then the end of the
\* stream or (broken) a stream error: the bytes collected by collect_body, or
\* the error it returns.
RECURSIVE limit_stream(_, _, _, _)
limit_stream(remaining, chunks, broken, collected) ==
    IF chunks = <<>>
    THEN IF broken THEN [ok |-> FALSE, error |-> "StreamError"]
         ELSE [ok |-> TRUE, len |-> collected]
    ELSE IF Head(chunks) > remaining     \* checked_sub gives None
         THEN [ok |-> FALSE, error |-> "LimitExceeded"]
         ELSE limit_stream(remaining - Head(chunks), Tail(chunks), broken,
                           collected + Head(chunks))

min(a, b) == IF a <= b THEN a ELSE b

\* collect_http_body
collect_http_body(content_length, chunks, broken, max_capacity) ==
    LET capacity ==
            min(max_capacity,
                IF is_some(content_length) THEN unwrap(content_length)
                ELSE USIZE_MAX)
    IN  limit_stream(capacity, chunks, broken, 0)

----------------------------------------------------------------------------
(* client.rs *)

MAX_RESPONSE_SIZE == 1 + 8 + 3 + 8 + 1024 + 8 + 8192 + 8 + 32768

Fulfill(data) == [type |-> "Fulfill", data |-> data]

Reject(code, message, triggered_by, data) ==
    [type |-> "Reject", code |-> code, message |-> message,
     triggered_by |-> triggered_by, data |-> data]

\* The serialized Prepare (`BytesMut::from(prepare).freeze()`): the packet
\* type byte of a Prepare (12) and its fields.
prepare_bytes(prepare) ==
    [packet_type |-> 12, destination |-> prepare.destination,
     execution_condition |-> prepare.execution_condition]

\* HeaderValue::from_maybe_shared accepts the bytes: visible ASCII or tab,
\* not DEL.
header_value_valid(bytes) ==
    \A i \in 1..Len(bytes) :
        (bytes[i] >= 32 /\ bytes[i] # 127) \/ bytes[i] = 9

\* RequestOptions::build fails with InvalidHeaderValue.
build_fails(req_opts) ==
    \/ is_some(req_opts.auth) /\ ~ header_value_valid(unwrap(req_opts.auth))
    \/ is_some(req_opts.peer_name)
            /\ ~ header_value_valid(unwrap(req_opts.peer_name))

\* RequestOptions::build: the HTTP request.
build(req_opts, body) ==
    [method |-> req_opts.method, uri |-> req_opts.uri,
     authorization |-> req_opts.auth, peer_name |-> req_opts.peer_name,
     content_type |-> "application/octet-stream", body |-> body]

\* Client::make_reject
client_make_reject(address, code, message) ==
    Reject(code, message, Some(address), <<>>)

\* What the peer answers to one HTTP request: a transport error (connection
\* error or abort), or a response.
TransportError == [kind |-> "error"]

HttpResponse(status, content_length, chunks, broken, body) ==
    [kind |-> "response", status |-> status,
     content_length |-> content_length, chunks |-> chunks, broken |-> broken,
     body |-> body]

\* decode_response that marks a peer's Reject as triggered by the connector.
decode_response_retriggered(address, body) ==
    IF body.type = "Fulfill" THEN body
    ELSE IF body.type = "Reject"
    THEN [body EXCEPT !.triggered_by = Some(address)]
    ELSE client_make_reject(address, "T00", "invalid response body from peer")

\* Client::decode_response: the body of a 200 response.
decode_response(address, body) ==
    IF body.type \in {"Fulfill", "Reject"} THEN body
    ELSE client_make_reject(address, "T00", "invalid response body from peer")

\* decode_http_response for a body collected without error.
decode_status(address, response) ==
    IF response.status = 200
    THEN decode_response(address, response.body)
    ELSE IF 400 <= response.status /\ response.status <= 499
    THEN client_make_reject(address, "F00", "bad request to peer")
    ELSE IF 500 <= response.status /\ response.status <= 599
    THEN client_make_reject(address, "T01", "peer internal error")
    ELSE client_make_reject(address, "T00", "unexpected response code from peer")

\* decode_http_response that answers a server error even with status 200.
decode_http_response_5xx(address, response) ==
    client_make_reject(address, "T01", "peer internal error")

\* Client::decode_http_response
decode_http_response(address, response) ==
    IF ~ collect_http_body(response.content_length, response.chunks,
                           response.broken, MAX_RESPONSE_SIZE).ok
    THEN client_make_reject(address, "T00", "invalid response body from peer")
    ELSE decode_status(address, response)

\* Retrying on every server error.
retries_5xx(outcome) ==
    outcome.kind = "response" /\ 500 <= outcome.status /\ outcome.status <= 599

\* The `.and_then` of Client::request: the first response asks for a retry.
retries(outcome) == outcome.kind = "response" /\ outcome.status = 502

\* The `.then` of Client::request: the result for the final outcome.
client_result(address, outcome) ==
    IF outcome.kind = "error"
    THEN client_make_reject(address, "T01", "peer connection error")
    ELSE decode_http_response(address, outcome)

----------------------------------------------------------------------------
(* services/router/service.rs *)

\* response_is_ok that counts every Reject as a failure.
response_is_ok_fulfill_only(connector_address, response) ==
    response.type = "Fulfill"

\* response_is_ok
response_is_ok(connector_address, response) ==
    LET is_unhealthy ==
            IF response.type = "Fulfill" THEN FALSE
            ELSE /\ response.code = "T01"
                 /\ response.triggered_by = Some(connector_address)
    IN  ~ is_unhealthy

\* RouterService::make_reject
router_make_reject(address, code, message) ==
    Reject(code, message, Some(address), <<>>)

----------------------------------------------------------------------------
(* The state machine: shared pieces. *)

\* No request is being forwarded.
IdleReq ==
    [pc |-> "idle", prepare |-> None, resolved |-> None,
     route_index |-> RouteIndex(0, 0), config |-> None,
     has_failover |-> FALSE, swapped |-> FALSE, holds_routes |-> FALSE,
     sends |-> <<>>, first |-> None, final |-> None,
     result |-> None, applied |-> "none"]

\* The clock advances.
Tick ==
    /\ now < MaxNow
    /\ now' = now + 1
    /\ UNCHANGED <<build_vars, routes, table_src, fails_in_row, fresh_fails, req>>
    /\ UNCHANGED ingress_vars

\* Every sequence over S of length 1..n.
SeqsUpTo(S, n) == UNION {[1..k -> S] : k \in 1..n}

\* Addresses and prefixes over the bytes "a" (97), "b" (98) and ".".
Prefixes == {<<>>, <<97>>, <<97, DOT>>, <<98, DOT>>}

Destinations ==
    {<<97>>, <<98>>, <<97, DOT, 97>>, <<97, DOT, 98>>, <<98, DOT, 97>>}

\* Stand-ins for two execution conditions (32 bytes each in a Prepare).
Conditions == {<<1>>, <<4>>}

Prepare(destination, execution_condition) ==
    [destination |-> destination, execution_condition |-> execution_condition]

Prepares ==
    {Prepare(destination, execution_condition) :
        destination \in Destinations, execution_condition \in Conditions}

----------------------------------------------------------------------------
(* SpecRoute: the health of one DynamicRoute under any sequence of outcomes. *)

FailRatios ==
    {[num |-> 1, den |-> 1], [num |-> 1, den |-> 2],
     [num |-> 1, den |-> 3], [num |-> 2, den |-> 3]}

FailDurations == {1, 2}

FailoverConfigs ==
    {RouteFailover(window_size, fail_ratio, fail_duration) :
        window_size \in 1..MaxWindowSize, fail_ratio \in FailRatios,
        fail_duration \in FailDurations}

TheRoute == RouteIndex(1, 1)

InitRoute ==
    /\ now = 0
    /\ debug_build \in BOOLEAN
    /\ \E failover \in FailoverConfigs :
          routes = RoutingTable_new(
                      <<StaticRoute(<<>>, Bilateral(<<"http://peer">>, None),
                                    Some(failover), 1)>>,
                      "Destination", 0)
    /\ table_src = "new"
    /\ fails_in_row = 0
    /\ fresh_fails = 0
    /\ req = IdleReq
    /\ IngressOff

\* The window of a Healthy status is fresh when an outcome arrives at time t:
\* its counters are, or are reset by the window-duration check to,
\* remaining = window_size and failures = 0.
window_fresh(route, t) ==
    /\ route.status.kind = "Healthy"
    /\ \/ t - route.status.updated_at > MAX_WINDOW_DURATION
       \/ /\ route.status.remaining = unwrap(route.config.failover).window_size
          /\ route.status.failures = 0

\* DynamicRoute::update on the route, with the outcome is_success.
RouteUpdate(is_success) ==
    /\ ~ update_panics(routes, TheRoute)
    /\ is_success \/ fails_in_row < MaxFailsInRow
    /\ routes' = table_update(routes, TheRoute, is_success, now)
    /\ fails_in_row' = IF is_success THEN 0 ELSE fails_in_row + 1
    /\ LET route == route_at(routes, TheRoute)
           base == IF route.status.kind # "Healthy" THEN -1
                   ELSE IF window_fresh(route, now) THEN 0
                   ELSE fresh_fails
       IN  fresh_fails' = IF is_success \/ base < 0 THEN -1 ELSE base + 1
    /\ UNCHANGED <<now, build_vars, table_src, req>>
    /\ UNCHANGED ingress_vars

NextRoute ==
    \/ RouteUpdate(TRUE)
    \/ RouteUpdate(FALSE)
    \/ Tick

SpecRoute == InitRoute /\ [][NextRoute]_vars

the_route == route_at(routes, TheRoute)

the_failover == unwrap(the_route.config.failover)

\* N / window_size >= fail_ratio, for the route's failover config.
n_over_window_at_least_ratio(n) ==
    n * the_failover.fail_ratio.den
        >= the_failover.fail_ratio.num * the_failover.window_size

\* C1 as stated: for a route with failover config, once N consecutive failed
\* outcomes have been applied to it with N / window_size >= fail_ratio, the
\* route's status is Unhealthy.
C1_AnyRunOfFailuresDemotes ==
    (/\ is_some(the_route.config.failover)
     /\ fails_in_row >= 1
     /\ n_over_window_at_least_ratio(fails_in_row))
        => the_route.status.kind = "Unhealthy"

\* C1 amended: for a route with failover config whose window is fresh
\* (Healthy, remaining = window_size, failures = 0), when N consecutive failed
\* outcomes, none more than 5 minutes after the previous outcome, have been
\* applied to it and N is the smallest count with N / window_size >=
\* fail_ratio, the route's status is Unhealthy.  (fresh_fails counts such a
\* run and ends with the outcome that demotes the route.)
C1_FailuresFromFreshWindowDemote ==
    (/\ is_some(the_route.config.failover)
     /\ fresh_fails >= 1
     /\ n_over_window_at_least_ratio(fresh_fails))
        => the_route.status.kind = "Unhealthy"

\* C1 witness: a route demoted by its second failure in a row from a fresh
\* window.
C1_Witness ==
    /\ fresh_fails = 2
    /\ n_over_window_at_least_ratio(2)
    /\ ~ n_over_window_at_least_ratio(1)
    /\ the_route.status.kind = "Unhealthy"

----------------------------------------------------------------------------
(* SpecBuild: routing tables built from any list of routes (RoutingTable::new)
   or from any route map (RoutingTableData::deserialize, as the connector's
   configuration is read), and the resolution of destinations against them. *)

RouteDatas ==
    {[next_hop |-> Bilateral(<<"http://peer">>, None), failover |-> None,
      partition |-> 1],
     [next_hop |-> Bilateral(<<"http://other">>, None),
      failover |-> Some(RouteFailover(2, [num |-> 1, den |-> 2], 2)),
      partition |-> 1]}

StaticRoutes ==
    {StaticRoute(prefix, data.next_hop, data.failover, data.partition) :
        prefix \in Prefixes, data \in RouteDatas}

RouteLists == SeqsUpTo(StaticRoutes, MaxRoutes)

RouteMaps ==
    UNION {[keys -> SeqsUpTo(RouteDatas, 2)] :
            keys \in {k \in SUBSET Prefixes :
                        k # {} /\ Cardinality(k) <= MaxRoutes}}

InitBuild ==
    /\ now = 0
    /\ debug_build = FALSE
    /\ routes = RoutingTable_new(<<>>, "Destination", 0)
    /\ table_src = "none"
    /\ fails_in_row = 0
    /\ fresh_fails = 0
    /\ req = IdleReq
    /\ IngressOff

\* The table is built by RoutingTable::new from a list of routes.
BuildFromList(list, partition_by) ==
    /\ table_src = "none"
    /\ routes' = RoutingTable_new(list, partition_by, now)
    /\ table_src' = "list"
    /\ req' = IdleReq
    /\ UNCHANGED <<now, build_vars, fails_in_row, fresh_fails>>
    /\ UNCHANGED ingress_vars

\* The table is built by RoutingTable::new from the routes of a deserialized
\* route map (Config::start_with_ildcp: `RoutingTable::new(self.routes.into(), ..)`).
BuildFromMap(routes_by_prefix, partition_by) ==
    /\ table_src = "none"
    /\ routes' = RoutingTable_new(deserialize(routes_by_prefix), partition_by, now)
    /\ table_src' = "map"
    /\ req' = IdleReq
    /\ UNCHANGED <<now, build_vars, fails_in_row, fresh_fails>>
    /\ UNCHANGED ingress_vars

\* RoutingTable::resolve of a Prepare against the table.
Resolve(prepare) ==
    /\ table_src # "none"
    /\ req.pc = "idle"
    /\ req' = [IdleReq EXCEPT !.pc = "resolved", !.prepare = Some(prepare),
                              !.resolved = Some(resolve(routes, prepare, now))]
    /\ UNCHANGED <<now, build_vars, routes, table_src, fails_in_row, fresh_fails>>
    /\ UNCHANGED ingress_vars

PartitionBys == {"Destination", "ExecutionCondition"}

NextBuild ==
    \/ \E list \in RouteLists, partition_by \in PartitionBys :
          BuildFromList(list, partition_by)
    \/ \E routes_by_prefix \in RouteMaps, partition_by \in PartitionBys :
          BuildFromMap(routes_by_prefix, partition_by)
    \/ \E prepare \in Prepares : Resolve(prepare)

SpecBuild == InitBuild /\ [][NextBuild]_vars

\* The groups are held longest-prefix-first, ties in ascending byte order.
groups_longest_first ==
    \A i, j \in 1..Len(routes.groups) :
        i < j =>
            \/ Len(routes.groups[i].target_prefix)
                    > Len(routes.groups[j].target_prefix)
            \/ /\ Len(routes.groups[i].target_prefix)
                    = Len(routes.groups[j].target_prefix)
               /\ lex_less(routes.groups[i].target_prefix,
                           routes.groups[j].target_prefix)

\* The resolution in req used the group with the longest target_prefix that
\* is a prefix of the destination (and found no route only if there is none).
resolved_longest_match ==
    req.pc = "resolved" =>
        LET destination == unwrap(req.prepare).destination
            resolved == unwrap(req.resolved)
            matching == {g \in 1..Len(routes.groups) :
                            starts_with(destination, routes.groups[g].target_prefix)}
        IN  IF matching = {}
            THEN resolved.kind = "NoRoute"
            ELSE /\ resolved.kind = "Ok"
                 /\ \A g \in matching :
                        Len(routes.groups[g].target_prefix)
                            <= Len(routes.groups[resolved.index.group_index]
                                        .target_prefix)

\* C5 as stated: a routing table built from any list of routes holds its
\* groups longest-prefix-first (ties in ascending prefix-byte order), so
\* resolution always uses the group with the longest target_prefix that is a
\* prefix of the destination, whatever order the routes were supplied in.
C5_AnyTableLongestFirst ==
    groups_longest_first /\ resolved_longest_match

\* C5 amended: a routing table built from a deserialized route map holds its
\* groups longest-prefix-first (ties in ascending prefix-byte order), so
\* resolution uses the group with the longest target_prefix that is a prefix
\* of the destination, whatever the order of the map's entries;
\* RoutingTable::new itself keeps the groups in the order in which their
\* prefixes first appear in the list, and resolution uses the first group in
\* that order whose target_prefix is a prefix of the destination.
C5_MapTableLongestFirst ==
    /\ table_src = "map" => groups_longest_first /\ resolved_longest_match
    /\ (table_src = "list" /\ req.pc = "resolved") =>
          LET destination == unwrap(req.prepare).destination
              resolved == unwrap(req.resolved)
          IN  \A g \in 1..Len(routes.groups) :
                 starts_with(destination, routes.groups[g].target_prefix)
                    => /\ resolved.kind = "Ok"
                       /\ resolved.index.group_index <= g

\* C5 witness: a table of three groups built from a route map, with a
\* destination that two of the groups match resolved to the longer one.
C5_Witness ==
    /\ table_src = "map"
    /\ Len(routes.groups) = 3
    /\ req.pc = "resolved"
    /\ unwrap(req.resolved).kind = "Ok"
    /\ unwrap(req.resolved).index.group_index = 1
    /\ \E g \in 2..3 :
          starts_with(unwrap(req.prepare).destination,
                      routes.groups[g].target_prefix)

----------------------------------------------------------------------------
(* Spec: RouterService::forward over the outbound Client, one request at a
   time, with the clock advancing and set_routes replacing the table. *)

\* The connector's own address, "a".
ADDRESS == <<97>>

OTHER_ADDRESS == <<98>>

\* forward without `std::mem::drop(routes)`: the read guard lives in the
\* future of the client's request.
Forward_holding_routes(prepare) ==
    /\ req.pc = "idle"
    /\ LET resolved == resolve(routes, prepare, now)
           config == route_at(routes, resolved.index).config
           next_hop == endpoint(config, ADDRESS, prepare.destination)
           req_opts == [method |-> "POST", uri |-> unwrap(next_hop),
                        auth |-> auth(config), peer_name |-> None]
           started == [IdleReq EXCEPT !.prepare = Some(prepare),
                                      !.resolved = Some(resolved)]
           selected == [started EXCEPT
                            !.route_index = resolved.index,
                            !.config = Some(config),
                            !.has_failover = is_some(config.failover)]
       IN  req' =
            CASE resolved.kind = "Panic" ->
                    [started EXCEPT !.pc = "panicked"]
              [] resolved.kind = "NoRoute" ->
                    [started EXCEPT !.pc = "done",
                        !.result = Some(router_make_reject(
                            ADDRESS, "F02", "no route exists"))]
              [] resolved.kind = "NoHealthyRoute" ->
                    [started EXCEPT !.pc = "done",
                        !.result = Some(router_make_reject(
                            ADDRESS, "T01", "no healthy route found"))]
              [] OTHER ->
                    IF debug_build
                        /\ endpoint_assert_fails(config, ADDRESS,
                                                 prepare.destination)
                    THEN [selected EXCEPT !.pc = "panicked"]
                    ELSE IF ~ is_some(next_hop)
                    THEN [selected EXCEPT !.pc = "done",
                            !.result = Some(router_make_reject(
                                ADDRESS, "F02", "invalid address segment"))]
                    ELSE IF build_fails(req_opts)
                    THEN [selected EXCEPT !.pc = "completed",
                            !.result = Some(client_make_reject(
                                ADDRESS, "F00", "invalid header value"))]
                    ELSE [selected EXCEPT !.pc = "sent", !.holds_routes = TRUE,
                            !.sends = <<build(req_opts, prepare_bytes(prepare))>>]
    /\ UNCHANGED <<now, build_vars, routes, table_src, fails_in_row, fresh_fails>>
    /\ UNCHANGED ingress_vars

\* RouterService::forward up to the call of the client: resolve the route,
\* derive the endpoint, build the request.  The Rejects made here are returned
\* as they are (`Either::Right(err(..))`); the client's future is wrapped in
\* `.inspect`.  The read guard on the table is dropped before the request
\* (`std::mem::drop(routes)`) and at every early return.
Forward(prepare) ==
    /\ req.pc = "idle"
    /\ LET resolved == resolve(routes, prepare, now)
           config == route_at(routes, resolved.index).config
           next_hop == endpoint(config, ADDRESS, prepare.destination)
           req_opts == [method |-> "POST", uri |-> unwrap(next_hop),
                        auth |-> auth(config), peer_name |-> None]
           started == [IdleReq EXCEPT !.prepare = Some(prepare),
                                      !.resolved = Some(resolved)]
           selected == [started EXCEPT
                            !.route_index = resolved.index,
                            !.config = Some(config),
                            !.has_failover = is_some(config.failover)]
       IN  req' =
            CASE resolved.kind = "Panic" ->
                    [started EXCEPT !.pc = "panicked"]
              [] resolved.kind = "NoRoute" ->
                    [started EXCEPT !.pc = "done",
                        !.result = Some(router_make_reject(
                            ADDRESS, "F02", "no route exists"))]
              [] resolved.kind = "NoHealthyRoute" ->
                    [started EXCEPT !.pc = "done",
                        !.result = Some(router_make_reject(
                            ADDRESS, "T01", "no healthy route found"))]
              [] OTHER ->
                    IF debug_build
                        /\ endpoint_assert_fails(config, ADDRESS,
                                                 prepare.destination)
                    THEN [selected EXCEPT !.pc = "panicked"]
                    ELSE IF ~ is_some(next_hop)
                    THEN [selected EXCEPT !.pc = "done",
                            !.result = Some(router_make_reject(
                                ADDRESS, "F02", "invalid address segment"))]
                    ELSE IF build_fails(req_opts)
                    THEN [selected EXCEPT !.pc = "completed",
                            !.result = Some(client_make_reject(
                                ADDRESS, "F00", "invalid header value"))]
                    ELSE [selected EXCEPT !.pc = "sent",
                            !.sends = <<build(req_opts, prepare_bytes(prepare))>>]
    /\ UNCHANGED <<now, build_vars, routes, table_src, fails_in_row, fresh_fails>>
    /\ UNCHANGED ingress_vars

\* The peer's answer to the request in flight reaches Client::request: the
\* first answer is retried once if it is a 502, every other answer is
\* decoded into the client's result.
Respond(outcome) ==
    /\ req.pc = "sent"
    /\ req' =
        IF Len(req.sends) = 1 /\ retries(outcome)
        THEN [req EXCEPT !.first = Some(outcome),
                         !.sends = Append(@, [req.sends[1] EXCEPT
                            !.body = prepare_bytes(unwrap(req.prepare))])]
        ELSE [req EXCEPT !.pc = "completed",
                         !.first = IF Len(req.sends) = 1 THEN Some(outcome) ELSE @,
                         !.final = Some(outcome),
                         !.result = Some(client_result(ADDRESS, outcome))]
    /\ UNCHANGED <<now, build_vars, routes, table_src, fails_in_row, fresh_fails>>
    /\ UNCHANGED ingress_vars

\* The `.inspect` of forward: the client's result updates the health of the
\* route at route_index, then the result is returned.
Inspect ==
    /\ req.pc = "completed"
    /\ IF ~ req.has_failover
       THEN /\ req' = [req EXCEPT !.pc = "done"]
            /\ UNCHANGED routes
       ELSE LET is_success == response_is_ok(ADDRESS, unwrap(req.result))
                applied == IF is_success THEN "success" ELSE "failure"
                updated == table_update(routes, req.route_index, is_success, now)
            IN  IF update_panics(routes, req.route_index)
                THEN /\ req' = [req EXCEPT !.pc = "panicked"]
                     /\ UNCHANGED routes
                ELSE /\ routes' = updated
                     /\ req' = [req EXCEPT
                            !.applied = applied,
                            !.pc = IF status_panics(
                                        route_at(updated, req.route_index))
                                   THEN "panicked" ELSE "done"]
    /\ UNCHANGED <<now, build_vars, table_src, fails_in_row, fresh_fails>>
    /\ UNCHANGED ingress_vars

\* The caller has the result (or the task has panicked); the next request
\* may come.
Finish ==
    /\ req.pc \in {"done", "panicked"}
    /\ req' = IdleReq
    /\ UNCHANGED <<now, build_vars, routes, table_src, fails_in_row, fresh_fails>>
    /\ UNCHANGED ingress_vars

\* RouterService::set_routes: `routes.write()` waits while a read guard is
\* held.
SetRoutes(list) ==
    /\ ~ req.holds_routes
    /\ routes' = RoutingTable_new(list, routes.partition_by, now)
    /\ table_src' = "list"
    /\ req' = IF req.pc \in {"sent", "completed"}
              THEN [req EXCEPT !.swapped = TRUE] ELSE req
    /\ UNCHANGED <<now, build_vars, fails_in_row, fresh_fails>>
    /\ UNCHANGED ingress_vars

\* Packets a peer may answer with.
PEER_FULFILL == Fulfill(<<"fulfill data">>)

PeerReject(code, triggered_by) ==
    Reject(code, "Some error", triggered_by, <<"reject data">>)

PeerBodies ==
    {PEER_FULFILL,
     PeerReject("F99", Some(OTHER_ADDRESS)),
     PeerReject("T01", Some(OTHER_ADDRESS)),
     PeerReject("T01", Some(ADDRESS)),
     [type |-> "Garbage"]}

\* A response whose body arrives whole, in one chunk of 10 bytes.
Whole(status, body) == HttpResponse(status, Some(10), <<10>>, FALSE, body)

\* The answers of the peers in Spec: a transport error, every kind of body
\* under status 200, and one status of every class.
RouterOutcomes ==
    {TransportError}
        \cup {Whole(200, body) : body \in PeerBodies}
        \cup {Whole(status, PEER_FULFILL) : status \in {300, 400, 500, 502}}

\* Route maps of the connector's configuration.
ROUTE_A1 ==
    [next_hop |-> Bilateral(<<"http://peer1">>, Some(<<116>>)),
     failover |-> Some(RouteFailover(2, [num |-> 1, den |-> 1], 2)),
     partition |-> 1]

ROUTE_A2 ==
    [next_hop |-> Bilateral(<<"http://peer2">>, None),
     failover |-> Some(RouteFailover(1, [num |-> 1, den |-> 1], 1)),
     partition |-> 1]

ROUTE_PARENT ==
    [next_hop |-> Bilateral(<<"http://parent">>, None), failover |-> None,
     partition |-> 1]

ROUTE_MULTI ==
    [next_hop |-> Multilateral("http://m/", "/ilp", None), failover |-> None,
     partition |-> 1]

\* A route whose auth token (a line feed) is no valid header value.
ROUTE_BAD_AUTH ==
    [next_hop |-> Bilateral(<<"http://peer3">>, Some(<<10>>)),
     failover |-> Some(RouteFailover(2, [num |-> 1, den |-> 2], 1)),
     partition |-> 1]

CONFIG_A == (<<97, DOT>> :> <<ROUTE_A1, ROUTE_A2>>) @@ (<<>> :> <<ROUTE_PARENT>>)

CONFIG_B ==
    (<<97, DOT>> :> <<ROUTE_MULTI>>) @@ (<<97>> :> <<ROUTE_MULTI>>)
        @@ (<<98, DOT>> :> <<ROUTE_BAD_AUTH, ROUTE_MULTI>>)

Configs ==
    {[routes |-> CONFIG_A, routing_partition |-> "Destination"],
     [routes |-> CONFIG_A, routing_partition |-> "ExecutionCondition"],
     [routes |-> CONFIG_B, routing_partition |-> "ExecutionCondition"]}

\* Lists of routes given to set_routes.
SetRoutesLists ==
    {<<StaticRoute(<<>>, ROUTE_PARENT.next_hop, None, 1),
       StaticRoute(<<97, DOT>>, ROUTE_A1.next_hop, ROUTE_A1.failover, 1)>>,
     <<StaticRoute(<<97, DOT>>, ROUTE_A2.next_hop, ROUTE_A2.failover, 1)>>}

Init ==
    /\ now = 0
    /\ debug_build \in BOOLEAN
    /\ \E config \in Configs :
          routes = RoutingTable_new(deserialize(config.routes),
                                    config.routing_partition, 0)
    /\ table_src = "map"
    /\ fails_in_row = 0
    /\ fresh_fails = 0
    /\ req = IdleReq
    /\ IngressOff

Next ==
    \/ \E prepare \in Prepares : Forward(prepare)
    \/ \E outcome \in RouterOutcomes : Respond(outcome)
    \/ Inspect
    \/ Finish
    \/ \E list \in SetRoutesLists : SetRoutes(list)
    \/ now < MaxRouterNow /\ Tick

Spec == Init /\ [][Next]_vars

----------------------------------------------------------------------------
(* Resolution in RouterService::forward (Spec). *)

\* A step of forward up to the client's call: only Forward takes a request
\* out of "idle".
ForwardStep == req.pc = "idle" /\ req'.pc # "idle"

\* The first group of the table whose target_prefix is a prefix of the
\* destination, 0 if there is none.
first_match(destination) ==
    LET matching == {g \in 1..Len(routes.groups) :
            /\ Len(routes.groups[g].target_prefix) <= Len(destination)
            /\ \A k \in 1..Len(routes.groups[g].target_prefix) :
                    routes.groups[g].target_prefix[k] = destination[k]}
    IN  IF matching = {} THEN 0
        ELSE CHOOSE g \in matching : \A h \in matching : g <= h

\* The routes of that group, <<>> if no group matches.
matched_routes(destination) ==
    IF first_match(destination) = 0 THEN <<>>
    ELSE routes.groups[first_match(destination)].routes

no_healthy_route_reject ==
    Reject("T01", "no healthy route found", Some(ADDRESS), <<>>)

no_route_reject == Reject("F02", "no route exists", Some(ADDRESS), <<>>)

\* C2 as stated: when a route of the matched group is Unhealthy and
\* now >= until, the resolution does not fail with NoHealthyRoute, and it
\* selects that route when every other route of the group is still
\* Unhealthy with until > now.
C2_AvailableFromUntil ==
    [][ForwardStep =>
        LET prepare == unwrap(req'.prepare)
            group == matched_routes(prepare.destination)
            resolved == unwrap(req'.resolved)
        IN  \A i \in 1..Len(group) :
                (group[i].status.kind = "Unhealthy"
                        /\ now >= group[i].status.until)
                => /\ resolved.kind # "NoHealthyRoute"
                   /\ (\A j \in 1..Len(group) \ {i} :
                            /\ group[j].status.kind = "Unhealthy"
                            /\ group[j].status.until > now)
                      => resolved =
                            Resolved("Ok",
                                first_match(prepare.destination), i)
    ]_vars

\* C2, amended: when a route of the matched group is Unhealthy and
\* now > until, the resolution does not fail with NoHealthyRoute, and it
\* selects that route, still Unhealthy, when every other route of the group
\* is Unhealthy with until >= now.
C2_AvailableAfterUntil ==
    [][ForwardStep =>
        LET prepare == unwrap(req'.prepare)
            group == matched_routes(prepare.destination)
            resolved == unwrap(req'.resolved)
        IN  \A i \in 1..Len(group) :
                (group[i].status.kind = "Unhealthy"
                        /\ now > group[i].status.until)
                => /\ resolved.kind # "NoHealthyRoute"
                   /\ (\A j \in 1..Len(group) \ {i} :
                            /\ group[j].status.kind = "Unhealthy"
                            /\ group[j].status.until >= now)
                      => resolved =
                            Resolved("Ok",
                                first_match(prepare.destination), i)
    ]_vars

\* A request is in flight on a route that is Unhealthy and past its until,
\* in a group with another route.
C2_Witness ==
    /\ req.pc = "sent"
    /\ ~ req.swapped
    /\ LET route == route_at(routes, req.route_index)
       IN  /\ route.status.kind = "Unhealthy"
           /\ route.status.until < now
    /\ Len(routes.groups[req.route_index.group_index].routes) > 1

\* Availability as the specification defines it, from the status alone.
available_status(status, t) ==
    \/ status.kind \in {"Infallible", "Healthy"}
    \/ status.kind = "Unhealthy" /\ status.until < t

\* What a resolution over the matched group owes: the route it returns is
\* of that group and available, it returns one when one is available, and
\* NoHealthyRoute only when none is.
resolves_available(prepare, resolved) ==
    LET group == matched_routes(prepare.destination)
        available == {i \in 1..Len(group) :
                        available_status(group[i].status, now)}
    IN  group # <<>> =>
        /\ resolved.kind = "Ok" =>
                /\ resolved.index.group_index =
                        first_match(prepare.destination)
                /\ resolved.index.route_index \in available
        /\ available # {} => resolved.kind = "Ok"
        /\ resolved.kind = "NoHealthyRoute" => available = {}

\* C3: within the matched group resolve never returns an unavailable route,
\* returns some route whenever a route of the group is available, and fails
\* with NoHealthyRoute only when none is.
C3_ResolveAvailable ==
    [][ForwardStep =>
        resolves_available(unwrap(req'.prepare), unwrap(req'.resolved))]_vars

\* C3 for the resolutions that return: the same, when no status lock of the
\* matched group is poisoned.
C3_ResolveAvailableUnlessPoisoned ==
    [][ForwardStep =>
        LET prepare == unwrap(req'.prepare)
            group == matched_routes(prepare.destination)
        IN  (\A i \in 1..Len(group) : ~ status_panics(group[i]))
                => resolves_available(prepare, unwrap(req'.resolved))]_vars

\* A resolution has panicked on a poisoned status lock although another
\* route of the matched group is Healthy.
C3_Witness ==
    /\ req.pc = "panicked"
    /\ unwrap(req.resolved).kind = "Panic"
    /\ debug_build
    /\ \E i \in 1..Len(matched_routes(unwrap(req.prepare).destination)) :
          matched_routes(unwrap(req.prepare).destination)[i].status.kind
                = "Healthy"

\* C4: when every route of the matched group is Unhealthy with until > now,
\* forward answers Reject T01 "no healthy route found" triggered by the
\* connector and sends nothing, whatever other groups match the destination.
C4_NoHealthyRoute ==
    [][ForwardStep =>
        LET group == matched_routes(unwrap(req'.prepare).destination)
        IN  (/\ group # <<>>
             /\ \A i \in 1..Len(group) :
                    /\ group[i].status.kind = "Unhealthy"
                    /\ group[i].status.until > now)
            => /\ req'.pc = "done"
               /\ req'.result = Some(no_healthy_route_reject)
               /\ req'.sends = <<>>
    ]_vars

\* The Reject "no healthy route found" has been returned while a later group
\* that matches the destination has an Infallible route.
C4_Witness ==
    /\ req.pc = "done"
    /\ req.result = Some(no_healthy_route_reject)
    /\ req.sends = <<>>
    /\ LET destination == unwrap(req.prepare).destination
           g == first_match(destination)
       IN  /\ \A i \in 1..Len(routes.groups[g].routes) :
                  /\ routes.groups[g].routes[i].status.kind = "Unhealthy"
                  /\ routes.groups[g].routes[i].status.until > now
           /\ \E h \in (g + 1)..Len(routes.groups) :
                  /\ starts_with(destination, routes.groups[h].target_prefix)
                  /\ \E i \in 1..Len(routes.groups[h].routes) :
                        routes.groups[h].routes[i].status.kind = "Infallible"

\* C6: when no group's target_prefix is a prefix of the destination, forward
\* answers Reject F02 "no route exists" triggered by the connector and sends
\* nothing.
C6_NoRoute ==
    [][ForwardStep =>
        LET destination == unwrap(req'.prepare).destination
        IN  (\A g \in 1..Len(routes.groups) :
                ~ starts_with(destination, routes.groups[g].target_prefix))
            => /\ req'.pc = "done"
               /\ req'.result = Some(no_route_reject)
               /\ req'.sends = <<>>
    ]_vars

\* The Reject "no route exists" has been returned from a table that has
\* groups, none of which matches the destination.
C6_Witness ==
    /\ req.pc = "done"
    /\ req.result = Some(no_route_reject)
    /\ req.sends = <<>>
    /\ Len(routes.groups) > 1
    /\ \A g \in 1..Len(routes.groups) :
          ~ starts_with(unwrap(req.prepare).destination,
                        routes.groups[g].target_prefix)

----------------------------------------------------------------------------
(* The health update of RouterService::forward (Spec). *)

\* The `.inspect` closure runs: only Inspect takes a request out of
\* "completed".
InspectStep == req.pc = "completed" /\ req'.pc # "completed"

\* The result is a Reject T01 triggered by this connector.
unreachable_by_connector(result) ==
    /\ result.type = "Reject"
    /\ result.code = "T01"
    /\ result.triggered_by = Some(ADDRESS)

\* The route with the selected route's configuration is at the selected
\* index of the table, and the step applies the outcome to its status.
selected_route_updated(is_success) ==
    /\ index_in_bounds(routes, req.route_index)
    /\ route_at(routes, req.route_index).config = unwrap(req.config)
    /\ routes' = [routes EXCEPT
            !.groups[req.route_index.group_index]
                .routes[req.route_index.route_index].status =
                    update_with_now(route_at(routes, req.route_index),
                                    is_success, now)]

\* C7: when a request sent on a route with failover completes, the selected
\* route's health is updated, with a failure if and only if the result is a
\* Reject T01 triggered by this connector and with a success otherwise, and
\* then the result is returned.
C7_SelectedRouteUpdated ==
    [][(InspectStep /\ req.has_failover) =>
        /\ selected_route_updated(
                ~ unreachable_by_connector(unwrap(req.result)))
        /\ req'.pc = "done"
    ]_vars

\* C7 while the table is the one the route was resolved in: the selected
\* route's status becomes what update_with_now gives for the outcome, a
\* failure if and only if the result is a Reject T01 triggered by this
\* connector; and whenever the result is returned, that is the outcome that
\* was applied at the selected index.
C7_UpdateClassified ==
    [][(InspectStep /\ req.has_failover) =>
        LET is_success == ~ unreachable_by_connector(unwrap(req.result))
        IN  /\ ~ req.swapped => selected_route_updated(is_success)
            /\ req'.pc = "done" =>
                    req'.applied = IF is_success THEN "success" ELSE "failure"
    ]_vars

\* A failure has been applied for a request whose table was replaced in
\* flight, at an index where the new table holds another route.
C7_Witness ==
    /\ req.pc = "done"
    /\ req.swapped
    /\ req.applied = "failure"
    /\ route_at(routes, req.route_index).config # unwrap(req.config)

----------------------------------------------------------------------------
(* SpecClient: Client::request under every kind of answer, behind a Router
   with one route. *)

ClientStatuses == {200, 201, 399, 400, 499, 500, 502, 599, 600}

\* How a response body arrives: the Content-Length header, the sizes of the
\* chunks, and whether the stream then ends or breaks.
BodyShape(content_length, chunks, broken) ==
    [content_length |-> content_length, chunks |-> chunks, broken |-> broken]

BodyShapes ==
    {BodyShape(Some(10), <<10>>, FALSE),
     BodyShape(None, <<MAX_RESPONSE_SIZE>>, FALSE),
     BodyShape(None, <<MAX_RESPONSE_SIZE - 1, 1>>, FALSE),
     BodyShape(None, <<MAX_RESPONSE_SIZE, 1>>, FALSE),
     BodyShape(None, <<MAX_RESPONSE_SIZE + 1>>, FALSE),
     BodyShape(Some(MAX_RESPONSE_SIZE + 1), <<MAX_RESPONSE_SIZE + 1>>, FALSE),
     BodyShape(Some(10), <<5>>, TRUE)}

ClientBodies ==
    {PEER_FULFILL,
     PeerReject("F99", Some(OTHER_ADDRESS)),
     PeerReject("T01", Some(ADDRESS)),
     [type |-> "Garbage"]}

ClientOutcomes ==
    {TransportError}
        \cup {HttpResponse(status, shape.content_length, shape.chunks,
                           shape.broken, body) :
                status \in ClientStatuses, shape \in BodyShapes,
                body \in ClientBodies}

ClientPrepares ==
    {Prepare(<<97, DOT, 97>>, <<1>>), Prepare(<<98>>, <<4>>)}

\* A catch-all route with failover.
CONFIG_CLIENT ==
    (<<>> :> <<[next_hop |-> Bilateral(<<"http://peer1">>, Some(<<116>>)),
                failover |->
                    Some(RouteFailover(2, [num |-> 1, den |-> 1], 2)),
                partition |-> 1]>>)

InitClient ==
    /\ now = 0
    /\ debug_build \in BOOLEAN
    /\ routes = RoutingTable_new(deserialize(CONFIG_CLIENT), "Destination", 0)
    /\ table_src = "map"
    /\ fails_in_row = 0
    /\ fresh_fails = 0
    /\ req = IdleReq
    /\ IngressOff

NextClient ==
    \/ \E prepare \in ClientPrepares : Forward(prepare)
    \/ \E outcome \in ClientOutcomes : Respond(outcome)
    \/ Inspect
    \/ Finish

SpecClient == InitClient /\ [][NextClient]_vars

\* The total size of the chunks.
RECURSIVE body_size(_)
body_size(chunks) ==
    IF chunks = <<>> THEN 0 ELSE Head(chunks) + body_size(Tail(chunks))

\* The body of a response is read whole: the stream does not break, and the
\* body fits MAX_RESPONSE_SIZE and the Content-Length, if one is given.
body_read(response) ==
    /\ ~ response.broken
    /\ body_size(response.chunks) <= MAX_RESPONSE_SIZE
    /\ is_some(response.content_length)
            => body_size(response.chunks) <= unwrap(response.content_length)

is_server_error(status) == 500 <= status /\ status <= 599

is_client_error(status) == 400 <= status /\ status <= 499

\* A health update has been made for a request the client has answered.
update_made == req.pc = "done" /\ req.has_failover /\ req.final # None

\* C8 as stated: a failure is applied to a route only when the client's
\* final outcome is a transport failure, never for an HTTP response received
\* from the peer.
C8_OnlyTransportFailures ==
    req.applied = "failure" =>
        /\ req.final # None
        /\ unwrap(req.final).kind = "error"

\* C8, amended: a failure is applied to a route exactly when the client's
\* final outcome is a transport failure, a 5xx response whose body was read,
\* or a 200 response carrying a Reject T01 triggered by this connector's
\* address; a Reject made without an answer of the peer applies no failure.
C8_FailureSignals ==
    LET signal(outcome) ==
            \/ outcome.kind = "error"
            \/ /\ outcome.kind = "response"
               /\ body_read(outcome)
               /\ \/ is_server_error(outcome.status)
                  \/ /\ outcome.status = 200
                     /\ outcome.body = PeerReject("T01", Some(ADDRESS))
    IN  /\ req.applied = "failure" =>
                req.final # None /\ signal(unwrap(req.final))
        /\ update_made =>
                (req.applied = "failure" <=> signal(unwrap(req.final)))

\* A failure has been applied for a 5xx response received from the peer.
C8_Witness ==
    /\ update_made
    /\ req.applied = "failure"
    /\ unwrap(req.final).kind = "response"
    /\ unwrap(req.final).status = 500
    /\ route_at(routes, req.route_index).status.kind = "Unhealthy"

----------------------------------------------------------------------------
(* Client::request (SpecClient). *)

\* C9: at most two requests are sent; the second one is sent exactly when the
\* first answer is a response with status 502, and equals the first one, body
\* included; the answer to the second one is final, whatever its status.
C9_RetryOnceOn502 ==
    /\ Len(req.sends) <= 2
    /\ Len(req.sends) = 2 =>
            /\ req.first # None
            /\ unwrap(req.first).kind = "response"
            /\ unwrap(req.first).status = 502
            /\ req.sends[2] = req.sends[1]
            /\ req.sends[2].body = prepare_bytes(unwrap(req.prepare))
    /\ (Len(req.sends) = 1 /\ req.first # None) =>
            /\ ~ ( /\ unwrap(req.first).kind = "response"
                   /\ unwrap(req.first).status = 502 )
            /\ req.final = req.first
    /\ (req.sends # <<>> /\ req.first # None /\ req.pc = "sent") =>
            Len(req.sends) = 2 /\ req.final = None
    /\ req.final # None =>
            /\ req.pc \in {"completed", "done", "panicked"}
            /\ req.result = Some(client_result(ADDRESS, unwrap(req.final)))

\* Both attempts were answered 502: two requests were sent, and the second
\* 502 is the final answer.
C9_Witness ==
    /\ Len(req.sends) = 2
    /\ req.pc = "completed"
    /\ unwrap(req.final).kind = "response"
    /\ unwrap(req.final).status = 502
    /\ unwrap(req.result).code = "T01"

client_reject(code, message) == Reject(code, message, Some(ADDRESS), <<>>)

\* The result the specification's table gives for a response, by its status
\* and the packet its body holds.
result_by_status(response) ==
    IF response.status = 200
    THEN IF response.body.type \in {"Fulfill", "Reject"} THEN response.body
         ELSE client_reject("T00", "invalid response body from peer")
    ELSE IF is_client_error(response.status)
    THEN client_reject("F00", "bad request to peer")
    ELSE IF is_server_error(response.status)
    THEN client_reject("T01", "peer internal error")
    ELSE client_reject("T00", "unexpected response code from peer")

\* C10 as stated: the final answer's status alone decides between F00 (any
\* 4xx), T01 (any 5xx) and T00 (any other status but 200); a 200 gives the
\* Fulfill or Reject its body holds and T00 for any other bytes (a body that
\* is not read whole counts as other bytes); a transport error gives T01.
C10_ResultByStatus ==
    req.final # None =>
        LET outcome == unwrap(req.final)
            result == unwrap(req.result)
            rejects(code) == result.type = "Reject" /\ result.code = code
        IN  IF outcome.kind = "error" THEN rejects("T01")
            ELSE IF outcome.status = 200
            THEN IF body_read(outcome)
                        /\ outcome.body.type \in {"Fulfill", "Reject"}
                 THEN result = outcome.body
                 ELSE rejects("T00")
            ELSE IF is_client_error(outcome.status) THEN rejects("F00")
            ELSE IF is_server_error(outcome.status) THEN rejects("T01")
            ELSE rejects("T00")

\* C10, amended: the result is T01 for a transport error; T00 "invalid
\* response body from peer" for every response whose body is not read whole
\* (it exceeds MAX_RESPONSE_SIZE or the Content-Length, or the stream
\* breaks), whatever the status; and given by the status and the packet for
\* every response whose body is read.
C10_ResultByBodyAndStatus ==
    req.final # None =>
        LET outcome == unwrap(req.final)
        IN  unwrap(req.result) =
                IF outcome.kind = "error"
                THEN client_reject("T01", "peer connection error")
                ELSE IF ~ body_read(outcome)
                THEN client_reject("T00", "invalid response body from peer")
                ELSE result_by_status(outcome)

\* A 5xx response whose body exceeds MAX_RESPONSE_SIZE has been answered
\* with T00.
C10_Witness ==
    /\ req.pc = "completed"
    /\ req.final # None
    /\ unwrap(req.final).kind = "response"
    /\ is_server_error(unwrap(req.final).status)
    /\ body_size(unwrap(req.final).chunks) > MAX_RESPONSE_SIZE
    /\ unwrap(req.result) =
            client_reject("T00", "invalid response body from peer")

----------------------------------------------------------------------------
(* middlewares/pre_stop.rs, health_check.rs, method.rs, auth.rs *)

\* b"Bearer "
BEARER_PREFIX == <<66, 101, 97, 114, 101, 114, 32>>

HttpRequest(method, path, authorization, peer_name, body) ==
    [method |-> method, path |-> path, authorization |-> authorization,
     peer_name |-> peer_name, body |-> body]

\* A response made by a middleware or by the Receiver.
Response(status, body) == [status |-> status, body |-> body]

\* What a middleware does with a request: answers it, or calls the next one.
Answer(response) == [kind |-> "answer", response |-> response]

CallNext == [kind |-> "next"]

\* `if token.starts_with(BEARER_PREFIX) { &token[BEARER_PREFIX.len()..] }`
strip_bearer(token) ==
    IF starts_with(token, BEARER_PREFIX)
    THEN SubSeq(token, Len(BEARER_PREFIX) + 1, Len(token))
    ELSE token

\* AuthTokenFilter::call that compares the header as it is.
AuthTokenFilter_call_unstripped(tokens, request) ==
    IF is_some(request.authorization)
        /\ unwrap(request.authorization) \in tokens
    THEN CallNext
    ELSE Answer(Response(401, ""))

\* AuthTokenFilter::call
AuthTokenFilter_call(tokens, request) ==
    IF is_some(request.authorization)
        /\ strip_bearer(unwrap(request.authorization)) \in tokens
    THEN CallNext
    ELSE Answer(Response(401, ""))

\* MethodFilter::call
MethodFilter_call(method, request) ==
    IF request.method = method
    THEN CallNext
    ELSE Answer(Response(405, ""))

\* HealthCheckFilter::call
HealthCheckFilter_call(request) ==
    IF request.method = "GET"
    THEN Answer(Response(200, "OK"))
    ELSE CallNext

\* `request.method() == GET && request.uri().path() == path`
is_pre_stop(path, request) ==
    request.method = "GET" /\ request.path = path

\* PreStopFilter::call that looks at the flag only after the pre-stop test.
PreStopFilter_call_unguarded(path, is_stopping, request) ==
    IF ~ is_some(path) THEN CallNext
    ELSE IF is_pre_stop(unwrap(path), request) THEN [kind |-> "stop"]
    ELSE CallNext

\* PreStopFilter::call: the request is passed on, answered 503, or (kind
\* "stop") sets the flag, starts the stop callback and is answered when the
\* callback's future completes.
PreStopFilter_call(path, is_stopping, request) ==
    IF ~ is_some(path) THEN CallNext
    ELSE IF is_stopping
    THEN Answer(Response(503, "service stopping"))
    ELSE IF is_pre_stop(unwrap(path), request) THEN [kind |-> "stop"]
    ELSE CallNext

\* The middlewares between PreStopFilter and the Receiver, in the order in
\* which Config::start_with_ildcp nests them.
filters_after_pre_stop(tokens, request) ==
    LET by_health == HealthCheckFilter_call(request)
        by_method == MethodFilter_call("POST", request)
        by_auth == AuthTokenFilter_call(tokens, request)
    IN  IF by_health.kind # "next" THEN by_health
        ELSE IF by_method.kind # "next" THEN by_method
        ELSE by_auth

----------------------------------------------------------------------------
(* middlewares/receiver.rs *)

MAX_REQUEST_SIZE == (1 + 8) + (8 + 13 + 32) + (8 + 1024) + (8 + 32768)

\* A Receiver whose limit refuses a body of exactly MAX_REQUEST_SIZE bytes.
Receiver_read_inclusive(body) ==
    LET chunk_result == limit_stream(MAX_REQUEST_SIZE - 1, body.chunks,
                                     body.broken, 0)
    IN  IF ~ chunk_result.ok
        THEN IF chunk_result.error = "LimitExceeded"
             THEN Answer(Response(413, "Payload Too Large"))
             ELSE [kind |-> "error"]
        ELSE IF body.packet.type # "Prepare"
        THEN Answer(Response(400, "Error parsing ILP Prepare"))
        ELSE [kind |-> "call", prepare |-> body.packet]

\* Receiver::handle up to the call of the packet services: the body is read
\* through LimitStream and parsed.  kind "call" hands the Prepare to the
\* services; kind "error" is the hyper error of a broken body stream, which
\* gets no response from the Receiver.
Receiver_read(body) ==
    LET chunk_result == limit_stream(MAX_REQUEST_SIZE, body.chunks,
                                     body.broken, 0)
    IN  IF ~ chunk_result.ok
        THEN IF chunk_result.error = "LimitExceeded"
             THEN Answer(Response(413, "Payload Too Large"))
             ELSE [kind |-> "error"]
        ELSE IF body.packet.type # "Prepare"
        THEN Answer(Response(400, "Error parsing ILP Prepare"))
        ELSE [kind |-> "call", prepare |-> body.packet]

\* A make_http_response that reports a temporary failure as a 5xx status.
make_http_response_by_code(packet) ==
    Response(IF packet.type = "Reject" /\ packet.code \in {"T00", "T01", "T03"}
             THEN 500 ELSE 200,
             packet)

\* make_http_response
make_http_response(packet) == Response(200, packet)

----------------------------------------------------------------------------
(* services/expiry.rs, from_peer.rs, ildcp.rs, echo.rs, big_query/ *)

\* DEFAULT_MAX_TIMEOUT (app/mod.rs), in seconds.
DEFAULT_MAX_TIMEOUT == 60

\* Seconds in one unit of the clock: the clock advances by minutes, so that
\* one unit is the longest timeout.
SECS_PER_MIN == DEFAULT_MAX_TIMEOUT

\* time::SystemTime::now(), in seconds, at the instant t.
system_time(t) == t * SECS_PER_MIN

\* What a service does with a request: returns a result (an immediately ready
\* future), or calls the next service.
Done(result) == [kind |-> "result", result |-> result]

Call(request) == [kind |-> "next", request |-> request]

\* A make_reject that leaves triggered_by out.
expiry_make_reject_untriggered(address, code, message) ==
    Reject(code, message, None, <<>>)

\* ExpiryService::make_reject
expiry_make_reject(address, code, message) ==
    Reject(code, message, Some(address), <<>>)

\* `expires_at.duration_since(SystemTime::now())` is Err: SystemTime::now()
\* is later than expires_at.
duration_since_fails(expires_at, t) == expires_at < system_time(t)

\* An ExpiryService whose timeout is the time to expires_at alone.
ExpiryService_call_uncapped(address, max_timeout, request, t) ==
    IF duration_since_fails(request.prepare.expires_at, t)
    THEN Done(expiry_make_reject(address, "R02", "insufficient timeout"))
    ELSE [kind |-> "next", request |-> request,
          timeout |-> request.prepare.expires_at - system_time(t)]

\* ExpiryService::call up to the call of the next service: kind "next" comes
\* with the duration (seconds) of the timeout that wraps the next service.
ExpiryService_call(address, max_timeout, request, t) ==
    IF duration_since_fails(request.prepare.expires_at, t)
    THEN Done(expiry_make_reject(address, "R02", "insufficient timeout"))
    ELSE [kind |-> "next", request |-> request,
          timeout |-> min(max_timeout,
                          request.prepare.expires_at - system_time(t))]

\* The `.map_err` of ExpiryService::call on an elapsed timeout / timer error.
expiry_timed_out(address) ==
    expiry_make_reject(address, "R00", "request timed out")

expiry_timer_error(address) ==
    expiry_make_reject(address, "T00", "timer error")

\* RelationConfig::with_parent
ConnectorPeer(relation, address, auth_tokens) ==
    [relation |-> relation, address |-> address, auth |-> auth_tokens]

\* An is_authorized that compares the header as it is.
is_authorized_unstripped(peer, token) == token \in peer.auth

\* ConnectorPeer::is_authorized
is_authorized(peer, token) == strip_bearer(token) \in peer.auth

\* `self.peers.iter().find(..)`: the first authorized peer, if any.
find_peer(peers, authorization) ==
    LET found == {i \in 1..Len(peers) :
                    is_some(authorization)
                        /\ is_authorized(peers[i], unwrap(authorization))}
    IN  IF found = {} THEN None
        ELSE Some(peers[CHOOSE i \in found : \A j \in found : i <= j])

\* FromPeerService::call
FromPeerService_call(address, peers, request) ==
    LET peer == find_peer(peers, request.authorization)
    IN  IF ~ is_some(peer)
        THEN Done(Reject("F00", "could not determine packet source",
                         Some(address), <<>>))
        ELSE Call([request EXCEPT
                    !.from_relation = Some(unwrap(peer).relation),
                    !.from_address = Some(unwrap(peer).address)])

\* ildcp::DESTINATION: b"peer.config"
ILDCP_DESTINATION == <<112, 101, 101, 114, 46, 99, 111, 110, 102, 105, 103>>

\* ConfigService::make_reject
config_make_reject(config, code, message) ==
    Reject(code, message, Some(config.client_address), <<>>)

\* The longest ILP address, in bytes.
MAX_ADDRESS_LENGTH == 1023

\* `Address::with_suffix` fails: the suffix is no address segment, or the
\* address with the suffix is too long.
with_suffix_fails(address, suffix) ==
    \/ Len(address) + 1 + Len(suffix) > MAX_ADDRESS_LENGTH
    \/ ~ validate_address_segment(suffix)

\* ConfigService::call that answers the peers of every relation.
ConfigService_call_any_relation(config, request) ==
    IF request.prepare.destination # ILDCP_DESTINATION
    THEN Call(request)
    ELSE IF ~ is_some(request.peer_name)
    THEN Done(config_make_reject(config, "F00",
                                 "Missing ILP-Peer-Name header"))
    ELSE IF with_suffix_fails(unwrap(request.from_address),
                              unwrap(request.peer_name))
    THEN Done(config_make_reject(config, "F00",
                                 "Invalid generated client address"))
    ELSE Done(Fulfill(
            [client_address |->
                unwrap(request.from_address) \o <<DOT>>
                    \o unwrap(request.peer_name),
             asset_scale |-> config.asset_scale,
             asset_code |-> config.asset_code]))

\* ConfigService::call
ConfigService_call(config, request) ==
    IF request.prepare.destination # ILDCP_DESTINATION
    THEN Call(request)
    ELSE IF ~ is_some(request.peer_name)
    THEN Done(config_make_reject(config, "F00",
                                 "Missing ILP-Peer-Name header"))
    ELSE IF unwrap(request.from_relation) # "Child"
    THEN Done(config_make_reject(config, "F00",
                                 "ILDCP request from non-child peer"))
    ELSE IF with_suffix_fails(unwrap(request.from_address),
                              unwrap(request.peer_name))
    THEN Done(config_make_reject(config, "F00",
                                 "Invalid generated client address"))
    ELSE Done(Fulfill(
            [client_address |->
                unwrap(request.from_address) \o <<DOT>>
                    \o unwrap(request.peer_name),
             asset_scale |-> config.asset_scale,
             asset_code |-> config.asset_code]))

\* Logger::is_queue_full
is_queue_full(batch_capacity, queue_len) == batch_capacity <= queue_len

\* Logger::is_available that lets one row more into the queue.
logger_is_available_late(the_logger) ==
    ~ is_queue_full(the_logger.batch_capacity + 1, Len(the_logger.queue))

\* Logger::is_available
logger_is_available(the_logger) ==
    ~ is_queue_full(the_logger.batch_capacity, Len(the_logger.queue))

\* Logger::is_dummy: the logger was made by Logger::default().
logger_is_dummy(the_logger) == the_logger.dummy

\* BigQueryService::call up to the call of the next service.
BigQueryService_call(address, the_logger, request) ==
    IF logger_is_dummy(the_logger) THEN Call(request)
    ELSE IF ~ logger_is_available(the_logger)
    THEN Done(Reject("T03", "backend is unavailable", Some(address), <<>>))
    ELSE Call(request)

\* Logger::write
logger_write(the_logger, row) ==
    LET queue == Append(the_logger.queue, row)
    IN  IF ~ is_queue_full(the_logger.batch_capacity, Len(queue))
        THEN [the_logger EXCEPT !.queue = queue]
        ELSE IF the_logger.batch_in_progress
        THEN [the_logger EXCEPT !.queue = queue]
        ELSE IF the_logger.batch = <<>>
        THEN [the_logger EXCEPT !.queue = <<>>, !.batch = queue,
                                !.batch_in_progress = TRUE]
        ELSE [the_logger EXCEPT !.queue = <<>>,
                                !.batch = the_logger.batch \o queue,
                                !.batch_in_progress = TRUE]

\* MIN_MESSAGE_WINDOW (echo.rs), in seconds.
MIN_MESSAGE_WINDOW == 1

\* b"ECHOECHOECHOECHO\x00" and b"ECHOECHOECHOECHO\x01"
ECHO_REQUEST_PREFIX ==
    <<69, 67, 72, 79, 69, 67, 72, 79, 69, 67, 72, 79, 69, 67, 72, 79, 0>>

ECHO_RESPONSE ==
    <<69, 67, 72, 79, 69, 67, 72, 79, 69, 67, 72, 79, 69, 67, 72, 79, 1>>

\* `Addr::try_from` accepts the bytes: dot-separated address segments.
RECURSIVE addr_valid(_)
addr_valid(bytes) ==
    LET segment == first_segment(bytes)
    IN  /\ validate_address_segment(segment)
        /\ \/ Len(segment) = Len(bytes)
           \/ addr_valid(SubSeq(bytes, Len(segment) + 2, Len(bytes)))

\* deserialize_echo_request: the address in the data of an echo request
\* (a length byte, then the address), or None on a ParseError.
deserialize_echo_request(data) ==
    IF ~ starts_with(data, ECHO_REQUEST_PREFIX) THEN None
    ELSE LET reader == SubSeq(data, Len(ECHO_REQUEST_PREFIX) + 1, Len(data))
         IN  IF reader = <<>> THEN None
             ELSE IF reader[1] >= 128 \/ Len(reader) < 1 + reader[1] THEN None
             ELSE LET addr == SubSeq(reader, 2, 1 + reader[1])
                  IN  IF addr_valid(addr) THEN Some(addr) ELSE None

\* ilp::PrepareBuilder { .. }.build()
PrepareBuilder(amount, expires_at, execution_condition, destination, data) ==
    [type |-> "Prepare", amount |-> amount, expires_at |-> expires_at,
     execution_condition |-> execution_condition,
     destination |-> destination, data |-> data]

\* EchoService::call that keeps the expiry of the echo request.
EchoService_call_same_expiry(address, request) ==
    IF address # request.prepare.destination
    THEN [kind |-> "next", prepare |-> request.prepare]
    ELSE LET from_addr == deserialize_echo_request(request.prepare.data)
         IN  IF ~ is_some(from_addr)
             THEN Done(Reject("F01", "invalid echo request", Some(address),
                              <<>>))
             ELSE [kind |-> "next",
                   prepare |->
                     PrepareBuilder(request.prepare.amount,
                                    request.prepare.expires_at,
                                    request.prepare.execution_condition,
                                    unwrap(from_addr), ECHO_RESPONSE)]

\* EchoService::call: kind "next" comes with the Prepare given to the router.
EchoService_call(address, request) ==
    IF address # request.prepare.destination
    THEN [kind |-> "next", prepare |-> request.prepare]
    ELSE LET incoming_prepare == request.prepare
             from_addr == deserialize_echo_request(incoming_prepare.data)
         IN  IF ~ is_some(from_addr)
             THEN Done(Reject("F01", "invalid echo request", Some(address),
                              <<>>))
             ELSE [kind |-> "next",
                   prepare |->
                     PrepareBuilder(
                        incoming_prepare.amount,
                        incoming_prepare.expires_at - MIN_MESSAGE_WINDOW,
                        incoming_prepare.execution_condition,
                        unwrap(from_addr), ECHO_RESPONSE)]

\* Logger::new
Logger_new(batch_capacity) ==
    [dummy |-> FALSE, batch_capacity |-> batch_capacity, queue |-> <<>>,
     batch |-> <<>>, batch_in_progress |-> FALSE, inserting |-> None]

\* LoggerQueue::flush_now, on the logger's queue.
flush_now(the_logger) ==
    IF the_logger.dummy \/ the_logger.batch_in_progress
        \/ the_logger.queue = <<>>
    THEN the_logger
    ELSE [the_logger EXCEPT !.queue = <<>>, !.batch = the_logger.queue,
                            !.batch_in_progress = TRUE]

\* An is_idle that does not look at the batch being inserted.
is_idle_queue_only(the_logger) ==
    the_logger.dummy \/ the_logger.queue = <<>>

\* LoggerQueue::is_idle, on the logger's queue.
is_idle(the_logger) ==
    the_logger.dummy
        \/ (the_logger.queue = <<>> /\ ~ the_logger.batch_in_progress)

\* BigQueryService::stop gives up after ATTEMPTS = 100 attempts; the model's
\* stop gives up after MaxAttempts.
MaxAttempts == 2

\* The services with the EchoService above the BigQueryService.
services_call_echo_first(address, peers, config, the_logger, request, t) ==
    LET expiry == ExpiryService_call(address, DEFAULT_MAX_TIMEOUT, request, t)
        from_peer == FromPeerService_call(address, peers, request)
        ildcp == ConfigService_call(config, from_peer.request)
        echo == EchoService_call(address, ildcp.request)
        big_query == BigQueryService_call(address, the_logger, ildcp.request)
        at(calls, by) ==
            [calls |-> calls, kind |-> "result", result |-> Some(by.result),
             outgoing |-> None,
             timeout |-> IF Len(calls) > 2 THEN Some(expiry.timeout) ELSE None,
             logs |-> Len(calls) > 5 /\ ~ logger_is_dummy(the_logger)]
    IN  IF expiry.kind = "result"
        THEN at(<<"DebugService", "ExpiryService">>, expiry)
        ELSE IF from_peer.kind = "result"
        THEN at(<<"DebugService", "ExpiryService", "FromPeerService">>,
                from_peer)
        ELSE IF ildcp.kind = "result"
        THEN at(<<"DebugService", "ExpiryService", "FromPeerService",
                  "ConfigService">>, ildcp)
        ELSE IF echo.kind = "result"
        THEN at(<<"DebugService", "ExpiryService", "FromPeerService",
                  "ConfigService", "EchoService">>, echo)
        ELSE IF big_query.kind = "result"
        THEN at(<<"DebugService", "ExpiryService", "FromPeerService",
                  "ConfigService", "EchoService", "BigQueryService">>,
                big_query)
        ELSE [calls |-> <<"DebugService", "ExpiryService", "FromPeerService",
                          "ConfigService", "EchoService", "BigQueryService",
                          "RouterService">>,
              kind |-> "router", result |-> None,
              outgoing |-> Some(echo.prepare),
              timeout |-> Some(expiry.timeout),
              logs |-> ~ logger_is_dummy(the_logger)]

\* The packet services from DebugService down to the RouterService, as
\* Config::start_with_ildcp nests them: every `call` up to the first service
\* that returns a result, or up to the RouterService.
services_call(address, peers, config, the_logger, request, t) ==
    LET expiry == ExpiryService_call(address, DEFAULT_MAX_TIMEOUT, request, t)
        from_peer == FromPeerService_call(address, peers, request)
        ildcp == ConfigService_call(config, from_peer.request)
        big_query == BigQueryService_call(address, the_logger, ildcp.request)
        echo == EchoService_call(address, big_query.request)
        at(calls, by) ==
            [calls |-> calls, kind |-> "result", result |-> Some(by.result),
             outgoing |-> None,
             timeout |-> IF Len(calls) > 2 THEN Some(expiry.timeout) ELSE None,
             logs |-> Len(calls) > 5 /\ ~ logger_is_dummy(the_logger)]
    IN  IF expiry.kind = "result"
        THEN at(<<"DebugService", "ExpiryService">>, expiry)
        ELSE IF from_peer.kind = "result"
        THEN at(<<"DebugService", "ExpiryService", "FromPeerService">>,
                from_peer)
        ELSE IF ildcp.kind = "result"
        THEN at(<<"DebugService", "ExpiryService", "FromPeerService",
                  "ConfigService">>, ildcp)
        ELSE IF big_query.kind = "result"
        THEN at(<<"DebugService", "ExpiryService", "FromPeerService",
                  "ConfigService", "BigQueryService">>, big_query)
        ELSE IF echo.kind = "result"
        THEN at(<<"DebugService", "ExpiryService", "FromPeerService",
                  "ConfigService", "BigQueryService", "EchoService">>, echo)
        ELSE [calls |-> <<"DebugService", "ExpiryService", "FromPeerService",
                          "ConfigService", "BigQueryService", "EchoService",
                          "RouterService">>,
              kind |-> "router", result |-> None,
              outgoing |-> Some(echo.prepare),
              timeout |-> Some(expiry.timeout),
              logs |-> ~ logger_is_dummy(the_logger)]

\* The services that see a result on its way back to the Receiver: the
\* callers of the service that produced it, innermost first.  The
\* FromPeerService, ConfigService and EchoService return the next service's
\* future as it is.
RECURSIVE reverse(_)
reverse(seq) ==
    IF seq = <<>> THEN <<>> ELSE Append(reverse(Tail(seq)), Head(seq))

returns_through(calls) ==
    SelectSeq(reverse(SubSeq(calls, 1, Len(calls) - 1)),
              LAMBDA service :
                service \in {"DebugService", "ExpiryService",
                             "BigQueryService"})

----------------------------------------------------------------------------
(* SpecIngress: the connector of Config::start_with_ildcp, from the HTTP
   middlewares through the packet services to the router and the client,
   handling one request at a time next to a GET to pre_stop_path, while the
   logger's batches are inserted and the clock advances. *)

\* The clock of the ingress specification stops advancing at MaxIngressNow.
MaxIngressNow == 3

\* LoggerConfig.batch_capacity of the configured logger.
BatchCapacity == 2

PRE_STOP_PATH == "/pre_stop"

TOKEN_CHILD == <<115>>

TOKEN_PARENT == <<112>>

\* Config.relatives, each `with_parent(&address)`.
PEERS ==
    <<ConnectorPeer("Child", ADDRESS \o <<DOT, 99>>, {TOKEN_CHILD}),
      ConnectorPeer("Parent", ADDRESS, {TOKEN_PARENT})>>

\* `relation.auth_tokens()` of every relative.
AUTH_TOKENS == UNION {PEERS[i].auth : i \in 1..Len(PEERS)}

\* The ildcp::Response the connector starts with.
ILDCP_CONFIG ==
    [client_address |-> ADDRESS, asset_scale |-> 9, asset_code |-> "XRP"]

\* The request as the Receiver hands it to the services, with the fields
\* the FromPeerService adds.
RequestWithHeaders(prepare, request) ==
    [prepare |-> prepare, authorization |-> request.authorization,
     peer_name |-> request.peer_name, from_relation |-> None,
     from_address |-> None]

\* The row logged for a fulfilled request.
Row(request) == [destination |-> request.prepare.destination]

\* `(data.stop)()`: the future of BigQueryService::stop is made; it runs when
\* it is polled.
StopFuture == [IdlePreStop EXCEPT !.pc = "stop"]

\* The HTTP request arrives: PreStopFilter::call, and the calls it makes of
\* HealthCheckFilter, MethodFilter and AuthTokenFilter, down to the Receiver.
Arrive(request) ==
    /\ LET by_pre_stop == PreStopFilter_call(pre_stop_path, stopping, request)
           by_filters == filters_after_pre_stop(AUTH_TOKENS, request)
           arrived == [IdleConn EXCEPT !.request = Some(request),
                                       !.arrived_stopping = stopping]
           answered(response) ==
               [arrived EXCEPT !.pc = "answered", !.response = Some(response)]
       IN  IF by_pre_stop.kind = "stop"
           THEN /\ pre_stop.pc = "idle"
                /\ stopping' = TRUE
                /\ pre_stop' = StopFuture
                /\ UNCHANGED conn
           ELSE /\ conn.pc = "idle"
                /\ conn' = IF by_pre_stop.kind = "answer"
                           THEN answered(by_pre_stop.response)
                           ELSE IF by_filters.kind = "answer"
                           THEN answered(by_filters.response)
                           ELSE [arrived EXCEPT !.pc = "body"]
                /\ UNCHANGED <<stopping, pre_stop>>
    /\ UNCHANGED <<pre_stop_path, logger>>
    /\ UNCHANGED router_vars

\* The first poll of BigQueryService::stop: every queue is flushed.
StopStart ==
    /\ pre_stop.pc = "stop"
    /\ pre_stop' = [pre_stop EXCEPT !.pc = "polling", !.flag_first = stopping]
    /\ logger' = flush_now(logger)
    /\ UNCHANGED <<pre_stop_path, stopping, conn>>
    /\ UNCHANGED router_vars

\* A stop that keeps polling until every queue is idle.
StopPoll_until_idle ==
    /\ pre_stop.pc = "polling"
    /\ pre_stop' =
        IF is_idle(logger)
        THEN [pre_stop EXCEPT !.pc = "answered", !.stopped = TRUE,
                              !.response = Some(Response(200, ""))]
        ELSE [pre_stop EXCEPT
                !.attempts = IF @ < MaxAttempts THEN @ + 1 ELSE @]
    /\ UNCHANGED <<pre_stop_path, stopping, logger, conn>>
    /\ UNCHANGED router_vars

\* One attempt of BigQueryService::stop: the future completes when every
\* queue is idle, or after the last attempt; then PreStopFilter answers 200.
StopPoll ==
    /\ pre_stop.pc = "polling"
    /\ pre_stop' =
        IF is_idle(logger) \/ pre_stop.attempts = MaxAttempts
        THEN [pre_stop EXCEPT !.pc = "answered", !.stopped = TRUE,
                              !.response = Some(Response(200, ""))]
        ELSE [pre_stop EXCEPT !.attempts = @ + 1]
    /\ UNCHANGED <<pre_stop_path, stopping, logger, conn>>
    /\ UNCHANGED router_vars

\* The response to the GET to pre_stop_path is sent.
PreStopClose ==
    /\ pre_stop.pc = "answered"
    /\ pre_stop' = IdlePreStop
    /\ UNCHANGED <<pre_stop_path, stopping, logger, conn>>
    /\ UNCHANGED router_vars

\* The result of the services goes back to the Receiver, through the
\* BigQueryService (which logs a Fulfill) if it called the next service, and
\* becomes the HTTP response (make_http_response).
return_result(the_conn, result, returns) ==
    [the_conn EXCEPT !.pc = "answered", !.result = Some(result),
                     !.returns = returns,
                     !.response = Some(make_http_response(result))]

logged(the_logger, the_conn, result) ==
    IF the_conn.logs /\ result.type = "Fulfill"
    THEN logger_write(the_logger,
                      Row(RequestWithHeaders(unwrap(the_conn.request).body.packet,
                                             unwrap(the_conn.request))))
    ELSE the_logger

\* Receiver::handle: the body has been read.  A Prepare goes down the
\* services, which run without suspending until one of them returns a result
\* or the RouterService is called.
ReadBody ==
    /\ conn.pc = "body"
    /\ LET request == unwrap(conn.request)
           read == Receiver_read(request.body)
           down == services_call(ADDRESS, PEERS, ILDCP_CONFIG, logger,
                                 RequestWithHeaders(read.prepare, request),
                                 now)
           called == [conn EXCEPT !.parsed = TRUE, !.calls = down.calls,
                                  !.called_at = now,
                                  !.timeout = down.timeout,
                                  !.logs = down.logs,
                                  !.outgoing = down.outgoing]
       IN  IF read.kind = "answer"
           THEN /\ conn' = [conn EXCEPT !.pc = "answered",
                                        !.response = Some(read.response)]
                /\ UNCHANGED logger
           ELSE IF read.kind = "error"
           THEN /\ conn' = [conn EXCEPT !.pc = "failed"]
                /\ UNCHANGED logger
           ELSE IF down.kind = "result"
           THEN /\ conn' = return_result(called, unwrap(down.result),
                                       returns_through(down.calls))
                /\ logger' = logged(logger, called, unwrap(down.result))
           ELSE /\ conn' = [called EXCEPT !.pc = "router"]
                /\ UNCHANGED logger
    /\ UNCHANGED <<pre_stop_path, stopping, pre_stop>>
    /\ UNCHANGED router_vars

\* RouterService::call, in the same poll as the services above it.
RouterCall ==
    /\ conn.pc = "router"
    /\ req.pc = "idle"
    /\ Forward(unwrap(conn.outgoing))

\* The RouterService's future is ready: its result goes back to the Receiver.
\* A panic of the router ends the task without a response.
RouterReturn ==
    /\ conn.pc = "router"
    /\ req.pc \in {"done", "panicked"}
    /\ req' = IdleReq
    /\ IF req.pc = "panicked"
       THEN /\ conn' = [conn EXCEPT !.pc = "panicked"]
            /\ UNCHANGED logger
       ELSE /\ conn' = return_result(conn, unwrap(req.result),
                                       returns_through(conn.calls))
            /\ logger' = logged(logger, conn, unwrap(req.result))
    /\ UNCHANGED <<now, build_vars, routes, table_src, fails_in_row,
                   fresh_fails>>
    /\ UNCHANGED <<pre_stop_path, stopping, pre_stop>>

\* The instant (seconds) at which the timeout of the ExpiryService elapses.
deadline(the_conn) ==
    system_time(the_conn.called_at) + unwrap(the_conn.timeout)

\* The client's request is in flight under the ExpiryService's timeout.
awaiting_peer == conn.pc = "router" /\ req.pc = "sent"

\* A timeout that counts the request as a failure of the selected route.
ExpiryTimeout_counted_failure(timer_fails) ==
    /\ awaiting_peer
    /\ timer_fails \/ system_time(now) >= deadline(conn)
    /\ req' = IdleReq
    /\ conn' = return_result(
                conn,
                IF timer_fails THEN expiry_timer_error(ADDRESS)
                ELSE expiry_timed_out(ADDRESS),
                <<"ExpiryService", "DebugService">>)
    /\ routes' = IF req.has_failover
                 THEN table_update(routes, req.route_index, FALSE, now)
                 ELSE routes
    /\ UNCHANGED <<now, build_vars, table_src, fails_in_row, fresh_fails>>
    /\ UNCHANGED <<pre_stop_path, stopping, pre_stop, logger>>

\* The timeout of the ExpiryService ends the request: the delay has elapsed
\* (timer_fails = FALSE) or the timer returns an error.  The router's future,
\* with the client's request and the `.inspect` that updates the route, is
\* dropped.
ExpiryTimeout(timer_fails) ==
    /\ awaiting_peer
    /\ timer_fails \/ system_time(now) >= deadline(conn)
    /\ req' = IdleReq
    /\ conn' = return_result(
                conn,
                IF timer_fails THEN expiry_timer_error(ADDRESS)
                ELSE expiry_timed_out(ADDRESS),
                <<"ExpiryService", "DebugService">>)
    /\ UNCHANGED <<now, build_vars, routes, table_src, fails_in_row,
                   fresh_fails>>
    /\ UNCHANGED <<pre_stop_path, stopping, pre_stop, logger>>

\* The response is sent, or the connection is dropped.
Close ==
    /\ conn.pc \in {"answered", "failed", "panicked"}
    /\ conn' = IdleConn
    /\ UNCHANGED <<pre_stop_path, stopping, pre_stop, logger>>
    /\ UNCHANGED router_vars

\* Logger::get_next_batch in Logger::flush: the batch is taken and
\* `insert_all` starts.
FlushBatch ==
    /\ ~ logger.dummy
    /\ logger.batch # <<>>
    /\ ~ is_some(logger.inserting)
    /\ logger' = [logger EXCEPT !.batch = <<>>,
                                !.inserting = Some(logger.batch)]
    /\ UNCHANGED <<pre_stop_path, stopping, pre_stop, conn>>
    /\ UNCHANGED router_vars

\* `insert_all` returns: Ok, or an error with the rows to retry (here: the
\* last `retries` rows of the batch).
InsertAllReturns(to_retry) ==
    /\ is_some(logger.inserting)
    /\ to_retry <= Len(unwrap(logger.inserting))
    /\ logger' =
        IF to_retry = 0
        THEN [logger EXCEPT !.inserting = None, !.batch_in_progress = FALSE]
        ELSE [logger EXCEPT
                !.inserting = None,
                !.batch = LET rows == unwrap(logger.inserting)
                          IN  SubSeq(rows, Len(rows) - to_retry + 1, Len(rows))]
    /\ UNCHANGED <<pre_stop_path, stopping, pre_stop, conn>>
    /\ UNCHANGED router_vars

\* The clock advances, unless the request is in a poll that does not suspend
\* or the timeout of the ExpiryService is due.
IngressTick ==
    /\ now < MaxIngressNow
    /\ conn.pc = "router" =>
            (req.pc = "sent" /\ system_time(now) < deadline(conn))
    /\ Tick

\* A request body: the sizes of its chunks, whether the stream then breaks,
\* and the packet its bytes parse to.
RequestBody(chunks, broken, packet) ==
    [chunks |-> chunks, broken |-> broken, packet |-> packet]

\* A Prepare with the amount of testing.rs's PREPARE.
IngressPrepare(destination, expires_at, data) ==
    PrepareBuilder(123, expires_at, <<1>>, destination, data)

\* A Prepare for "b.a" that expires at 120 s.
PLAIN_PREPARE == IngressPrepare(<<98, DOT, 97>>, 120, <<>>)

ExpiresAts == {system_time(t) : t \in 0..MaxIngressNow}

\* The data of echo requests: from "d.a", from the invalid address ".",
\* cut short, and data that is no echo request.
EchoDatas ==
    {ECHO_REQUEST_PREFIX \o <<3, 100, DOT, 97>>,
     ECHO_REQUEST_PREFIX \o <<1, DOT>>,
     ECHO_REQUEST_PREFIX \o <<5, 98>>,
     <<>>}

\* Prepares for "b.a", "c" and "d" with every expiry, and echo requests with
\* two expiries, and with another amount and condition.
IngressPrepares ==
    {IngressPrepare(destination, expires_at, <<>>) :
        destination \in {<<98, DOT, 97>>, <<99>>, <<100>>},
        expires_at \in ExpiresAts}
      \cup {IngressPrepare(ADDRESS, expires_at, data) :
                expires_at \in {60, 120}, data \in EchoDatas}
      \cup {PrepareBuilder(0, 120, <<4>>, ADDRESS, data) :
                data \in EchoDatas}

Authorizations ==
    {None, Some(TOKEN_CHILD), Some(BEARER_PREFIX \o TOKEN_CHILD),
     Some(BEARER_PREFIX \o BEARER_PREFIX \o TOKEN_CHILD), Some(<<120>>)}

\* How a request body arrives, around MAX_REQUEST_SIZE.
RequestShapes ==
    {BodyShape(None, <<MAX_REQUEST_SIZE>>, FALSE),
     BodyShape(None, <<MAX_REQUEST_SIZE - 1, 1>>, FALSE),
     BodyShape(None, <<MAX_REQUEST_SIZE - 1, 1, 0>>, FALSE),
     BodyShape(None, <<MAX_REQUEST_SIZE, 1>>, FALSE),
     BodyShape(None, <<MAX_REQUEST_SIZE + 1>>, FALSE),
     BodyShape(None, <<1, MAX_REQUEST_SIZE>>, TRUE),
     BodyShape(None, <<5>>, TRUE)}

\* A peer name of n bytes "-".
LongName(n) == [i \in 1..n |-> 45]

\* ILP-Peer-Name headers: none, "c" and ".".
PeerNames == {None, Some(<<99>>), Some(<<DOT>>)}

\* The longest name that the child's address still takes as a suffix, and
\* the name one byte longer.
LongPeerNames ==
    {Some(LongName(MAX_ADDRESS_LENGTH - Len(PEERS[1].address) - 1)),
     Some(LongName(MAX_ADDRESS_LENGTH - Len(PEERS[1].address)))}

\* The requests that arrive: every method, path and Authorization header
\* with a small body; bodies of every shape; Prepares of every kind from the
\* child; ILDCP requests from the child and the parent.
IngressRequests ==
    {HttpRequest(method, "/", authorization, None,
                 RequestBody(<<10>>, FALSE, PLAIN_PREPARE)) :
        method \in {"GET", "POST", "PUT"}, authorization \in Authorizations}
      \cup {HttpRequest(method, PRE_STOP_PATH, authorization, None,
                        RequestBody(<<10>>, FALSE, PLAIN_PREPARE)) :
                method \in {"GET", "POST"},
                authorization \in {None, Some(TOKEN_CHILD)}}
      \cup {HttpRequest("POST", "/", Some(TOKEN_CHILD), None,
                        RequestBody(shape.chunks, shape.broken, packet)) :
                shape \in RequestShapes,
                packet \in {PLAIN_PREPARE, [type |-> "Garbage"]}}
      \cup {HttpRequest("POST", "/", Some(TOKEN_CHILD), None,
                        RequestBody(<<10>>, FALSE, prepare)) :
                prepare \in IngressPrepares}
      \cup {HttpRequest("POST", "/", Some(token), peer_name,
                        RequestBody(<<10>>, FALSE,
                            IngressPrepare(ILDCP_DESTINATION, 120, <<>>))) :
                token \in {TOKEN_CHILD, BEARER_PREFIX \o TOKEN_PARENT},
                peer_name \in PeerNames}
      \cup {HttpRequest("POST", "/", Some(TOKEN_CHILD), peer_name,
                        RequestBody(<<10>>, FALSE,
                            IngressPrepare(ILDCP_DESTINATION, 120, <<>>))) :
                peer_name \in LongPeerNames}

\* The answers of the peer in SpecIngress.
IngressOutcomes ==
    {TransportError, Whole(200, PEER_FULFILL),
     Whole(200, PeerReject("F99", Some(OTHER_ADDRESS))),
     Whole(502, PEER_FULFILL)}

\* A route to one peer for the prefix "b." and a multilateral route for the
\* prefix "c".
CONFIG_INGRESS ==
    (<<98, DOT>> :>
        <<[next_hop |-> Bilateral(<<"http://peer1">>, Some(<<116>>)),
           failover |-> None, partition |-> 1]>>)
      @@ (<<99>> :> <<ROUTE_MULTI>>)

InitIngress ==
    /\ now = 0
    /\ debug_build \in BOOLEAN
    /\ routes = RoutingTable_new(deserialize(CONFIG_INGRESS), "Destination", 0)
    /\ table_src = "map"
    /\ fails_in_row = 0
    /\ fresh_fails = 0
    /\ req = IdleReq
    /\ pre_stop_path \in {None, Some(PRE_STOP_PATH)}
    /\ stopping = FALSE
    /\ pre_stop = IdlePreStop
    /\ logger \in {DummyLogger, Logger_new(BatchCapacity)}
    /\ conn = IdleConn
    /\ ConcurrentOff

NextIngress ==
    \/ \E request \in IngressRequests : Arrive(request)
    \/ StopStart
    \/ StopPoll
    \/ PreStopClose
    \/ ReadBody
    \/ RouterCall
    \/ \E outcome \in IngressOutcomes : Respond(outcome)
    \/ Inspect
    \/ RouterReturn
    \/ \E timer_fails \in BOOLEAN : ExpiryTimeout(timer_fails)
    \/ Close
    \/ FlushBatch
    \/ \E to_retry \in 0..BatchCapacity : InsertAllReturns(to_retry)
    \/ IngressTick

\* The task that runs BigQueryService::stop is polled by the runtime until
\* its future completes, and the timer of its delay fires.
FairStop == WF_vars(StopStart) /\ WF_vars(StopPoll)

\* SpecDrain: the connector with a pre_stop_path and a logger, which takes
\* the child's Prepare for "b.a" (fulfilled by the peer, and so logged) and
\* the GET to pre_stop_path, while the logger's batches are inserted.
DrainRequests ==
    {HttpRequest("POST", "/", Some(TOKEN_CHILD), None,
                 RequestBody(<<10>>, FALSE, PLAIN_PREPARE)),
     HttpRequest("GET", PRE_STOP_PATH, None, None,
                 RequestBody(<<10>>, FALSE, PLAIN_PREPARE))}

InitDrain ==
    /\ InitIngress
    /\ pre_stop_path = Some(PRE_STOP_PATH)
    /\ logger = Logger_new(BatchCapacity)

NextDrain ==
    \/ \E request \in DrainRequests : Arrive(request)
    \/ StopStart
    \/ StopPoll
    \/ PreStopClose
    \/ ReadBody
    \/ RouterCall
    \/ Respond(Whole(200, PEER_FULFILL))
    \/ Inspect
    \/ RouterReturn
    \/ Close
    \/ FlushBatch
    \/ \E to_retry \in 0..BatchCapacity : InsertAllReturns(to_retry)

SpecDrain == InitDrain /\ [][NextDrain]_vars /\ FairStop

\* SpecExpiry: the connector with a route that has failover, which takes the
\* child's Prepares for "b.a" with every expiry.
CONFIG_EXPIRY ==
    <<98, DOT>> :>
        <<[next_hop |-> Bilateral(<<"http://peer1">>, Some(<<116>>)),
           failover |-> Some(RouteFailover(2, [num |-> 1, den |-> 2], 2)),
           partition |-> 1]>>

ExpiryRequests ==
    {HttpRequest("POST", "/", Some(TOKEN_CHILD), None,
                 RequestBody(<<10>>, FALSE,
                             IngressPrepare(<<98, DOT, 97>>, expires_at, <<>>))) :
        expires_at \in ExpiresAts}

InitExpiry ==
    /\ now = 0
    /\ debug_build \in BOOLEAN
    /\ routes = RoutingTable_new(deserialize(CONFIG_EXPIRY), "Destination", 0)
    /\ table_src = "map"
    /\ fails_in_row = 0
    /\ fresh_fails = 0
    /\ req = IdleReq
    /\ pre_stop_path = None
    /\ stopping = FALSE
    /\ pre_stop = IdlePreStop
    /\ logger = DummyLogger
    /\ conn = IdleConn
    /\ ConcurrentOff

NextExpiry ==
    \/ \E request \in ExpiryRequests : Arrive(request)
    \/ ReadBody
    \/ RouterCall
    \/ \E outcome \in {TransportError, Whole(200, PEER_FULFILL)} :
            Respond(outcome)
    \/ Inspect
    \/ RouterReturn
    \/ \E timer_fails \in BOOLEAN : ExpiryTimeout(timer_fails)
    \/ Close
    \/ IngressTick

SpecExpiry == InitExpiry /\ [][NextExpiry]_vars

SpecIngress == InitIngress /\ [][NextIngress]_vars

----------------------------------------------------------------------------
(* Claims on SpecIngress. *)

the_request == unwrap(conn.request)

the_prepare == the_request.body.packet

\* The ExpiryService has been called with the request's Prepare.
expiry_called == conn.parsed /\ Len(conn.calls) >= 2

\* The ExpiryService returned the Reject itself, without calling the
\* FromPeerService.
rejected_by_expiry(code) ==
    /\ conn.calls = <<"DebugService", "ExpiryService">>
    /\ is_some(conn.result)
    /\ unwrap(conn.result).type = "Reject"
    /\ unwrap(conn.result).code = code

\* C11 as stated: if a Prepare's expires_at is not in the future when the
\* Expiry service receives it (already past, or equal to the current
\* instant), the service returns Reject R02_INSUFFICIENT_TIMEOUT and the
\* downstream service is never called.
C11_NotInFutureRejected ==
    (expiry_called /\ the_prepare.expires_at <= system_time(conn.called_at))
        => rejected_by_expiry("R02")

\* The part of C11 that the code keeps: a Prepare whose expires_at is
\* already past when the Expiry service receives it is rejected with
\* R02_INSUFFICIENT_TIMEOUT and the downstream service is never called.
C11_PastRejected ==
    (expiry_called /\ the_prepare.expires_at < system_time(conn.called_at))
        => rejected_by_expiry("R02")

\* C11 witness: a Prepare that expired a minute before it was received has
\* been rejected with R02 by the Expiry service.
C11_Witness ==
    /\ expiry_called
    /\ the_prepare.expires_at < system_time(conn.called_at)
    /\ rejected_by_expiry("R02")
    /\ conn.pc = "answered"

\* min(max_timeout, expires_at - now) for the request, from the instant at
\* which the Expiry service received it.
expected_timeout ==
    LET expires_in == the_prepare.expires_at - system_time(conn.called_at)
    IN  IF DEFAULT_MAX_TIMEOUT <= expires_in THEN DEFAULT_MAX_TIMEOUT
        ELSE expires_in

expected_deadline == system_time(conn.called_at) + expected_timeout

\* The Expiry service has the request, whose expires_at was in the future
\* when it came, and has not answered yet.
expiry_pending ==
    /\ conn.pc = "router"
    /\ the_prepare.expires_at > system_time(conn.called_at)

\* A step in which the Expiry service answers although downstream has not.
expiry_answers_alone ==
    /\ expiry_pending
    /\ req.pc = "sent"
    /\ conn'.pc = "answered"

timed_out_and_cancelled ==
    /\ unwrap(conn'.result) = Reject("R00", "request timed out",
                                     Some(ADDRESS), <<>>)
    /\ req' = IdleReq

ArriveStep == conn.pc = "idle" /\ conn'.pc # "idle"

\* C13: once a GET to the configured pre_stop_path has set the stopping
\* flag, the flag never clears, and every other request received afterwards
\* (packet POSTs and health-check GETs alike) is answered 503 without
\* reaching the next middleware.
C13_StoppingAnswers503 ==
    [][ /\ stopping => stopping'
        /\ (stopping /\ ArriveStep) =>
            /\ conn'.pc = "answered"
            /\ unwrap(conn'.response).status = 503
            /\ ~ conn'.parsed
            /\ req' = req ]_vars

\* C13 witness: a POST with a peer's token that arrived after the flag was
\* set has been answered 503.
C13_Witness ==
    /\ stopping
    /\ conn.pc = "answered"
    /\ conn.arrived_stopping
    /\ the_request.method = "POST"
    /\ the_request.authorization = Some(TOKEN_CHILD)
    /\ unwrap(conn.response).status = 503

\* Every queue of the logger is idle (or there is no logger).
drained ==
    logger.dummy \/ (logger.queue = <<>> /\ ~ logger.batch_in_progress)

\* C14: a GET to the configured pre_stop_path sets the stopping flag before
\* the drain callback starts, and its 200 response is produced only after
\* the drain callback (telemetry flush) has completed: when the logger's
\* queues are idle, or when the callback has given up waiting for them.
C14_FlagThenDrainThen200 ==
    [][ /\ (pre_stop.pc = "idle" /\ pre_stop'.pc # "idle") =>
                (stopping' /\ pre_stop'.pc = "stop"
                    /\ ~ is_some(pre_stop'.response))
        /\ (pre_stop.pc = "stop" /\ pre_stop'.pc # "stop") => stopping
        /\ (~ is_some(pre_stop.response) /\ is_some(pre_stop'.response)) =>
            /\ pre_stop.pc = "polling"
            /\ drained \/ pre_stop.attempts = MaxAttempts
            /\ unwrap(pre_stop'.response).status = 200 ]_vars

\* C14 witness: the GET to pre_stop_path has been answered 200 after the
\* callback waited for a batch that was being inserted.
C14_Witness ==
    /\ pre_stop.pc = "answered"
    /\ pre_stop.attempts = 1
    /\ pre_stop.flag_first
    /\ unwrap(pre_stop.response).status = 200
    /\ drained

\* The Authorization header is a peer's token, with or without one "Bearer ".
token_known(request) ==
    \E token \in AUTH_TOKENS :
        request.authorization
            \in {Some(token), Some(BEARER_PREFIX \o token)}

\* The answer to a request that is not a POST with a known token, by
\* precedence.
answered_by_precedence(request, response) ==
    IF request.method = "GET" THEN response = Response(200, "OK")
    ELSE IF request.method # "POST" THEN response.status = 405
    ELSE response.status = 401

\* A request taken up while the connector is not stopping reaches the
\* Receiver exactly if it is a POST with a known token, and is answered by
\* precedence otherwise.
filtered_while_not_stopping ==
    (~ stopping /\ ArriveStep) =>
        LET request == unwrap(conn'.request)
        IN  IF request.method = "POST" /\ token_known(request)
            THEN conn'.pc = "body"
            ELSE /\ conn'.pc = "answered"
                 /\ answered_by_precedence(request, unwrap(conn'.response))

\* The GET that set the flag is answered.
PreStopAnswered == ~ is_some(pre_stop.response) /\ is_some(pre_stop'.response)

\* C15 as stated: while the connector is not stopping, a request reaches the
\* Receiver only if its method is POST and its Authorization header, after
\* stripping one leading "Bearer ", is one of the configured peer tokens;
\* otherwise it is answered, in this order of precedence: 200 "OK" for any
\* GET (no authentication required), 405 for any other non-POST method, 401
\* for a POST with a missing or unknown token.
C15_AnyGetOK ==
    [][ /\ filtered_while_not_stopping
        /\ PreStopAnswered =>
                pre_stop'.response = Some(Response(200, "OK")) ]_vars

\* C15 amended: as C15, with 200 "OK" for any GET other than a GET to the
\* configured pre_stop_path; that GET sets the stopping flag and is answered
\* 200 with an empty body when the stop callback has completed.
C15_GetOKButPreStop ==
    [][ /\ filtered_while_not_stopping
        /\ (~ stopping /\ pre_stop.pc = "idle" /\ pre_stop'.pc # "idle") =>
                (is_some(pre_stop_path) /\ ~ is_some(pre_stop'.response))
        /\ PreStopAnswered =>
                pre_stop'.response = Some(Response(200, "")) ]_vars

\* C15 witness: a POST whose Authorization header is "Bearer " and the
\* child's token is with the Receiver.
C15_Witness ==
    /\ conn.pc = "body"
    /\ ~ conn.arrived_stopping
    /\ the_request.method = "POST"
    /\ the_request.authorization = Some(BEARER_PREFIX \o TOKEN_CHILD)

\* The Receiver has read the body of the request, or has given up reading.
BodyRead == conn.pc = "body" /\ conn'.pc # "body"

too_large(the_conn) ==
    /\ is_some(the_conn.response)
    /\ unwrap(the_conn.response).status = 413

\* C16: a request body of at most MAX_REQUEST_SIZE bytes in total is never
\* rejected for its size, and a body of MAX_REQUEST_SIZE + 1 bytes or more
\* is answered 413 without the packet service being called, however the body
\* is split into chunks.
C16_SizeLimit ==
    [][ BodyRead =>
            IF body_size(the_request.body.chunks) <= MAX_REQUEST_SIZE
            THEN ~ too_large(conn')
            ELSE /\ too_large(conn')
                 /\ conn'.pc = "answered"
                 /\ ~ conn'.parsed
                 /\ conn'.calls = <<>>
                 /\ req' = req ]_vars

\* C16 witness: a Prepare whose body of exactly MAX_REQUEST_SIZE bytes came
\* in three chunks has been given to the packet service.
C16_Witness ==
    /\ conn.parsed
    /\ the_request.body.chunks = <<MAX_REQUEST_SIZE - 1, 1, 0>>
    /\ conn.calls # <<>>

\* C16 witness of the other side: a body of MAX_REQUEST_SIZE + 1 bytes in two
\* chunks has been answered 413.
C16_WitnessTooLarge ==
    /\ too_large(conn)
    /\ the_request.body.chunks = <<MAX_REQUEST_SIZE, 1>>

sink_unavailable ==
    ~ logger.dummy /\ Len(logger.queue) >= logger.batch_capacity

called(the_conn, service) ==
    \E i \in 1..Len(the_conn.calls) : the_conn.calls[i] = service

\* C18: with a telemetry sink configured, a request that arrives (at the
\* gate) while the sink is unavailable is rejected by the gate with
\* T03_CONNECTOR_BUSY and is never forwarded to the router.
C18_BusyWhenSinkUnavailable ==
    [][ (BodyRead /\ sink_unavailable /\ called(conn', "BigQueryService")) =>
            /\ conn'.pc = "answered"
            /\ conn'.calls[Len(conn'.calls)] = "BigQueryService"
            /\ unwrap(conn'.result).type = "Reject"
            /\ unwrap(conn'.result).code = "T03"
            /\ ~ called(conn', "RouterService")
            /\ req' = req ]_vars

\* C18 witness: with the queue full, a Prepare for "b.a" has been rejected
\* with T03 by the gate.
C18_Witness ==
    /\ sink_unavailable
    /\ conn.pc = "answered"
    /\ conn.parsed
    /\ the_prepare.destination = <<98, DOT, 97>>
    /\ unwrap(conn.result).type = "Reject"
    /\ unwrap(conn.result).code = "T03"
    /\ req = IdleReq

is_prefix(a, b) == Len(a) <= Len(b) /\ a = SubSeq(b, 1, Len(a))

position(seq, x) == CHOOSE i \in 1..Len(seq) : seq[i] = x

\* The services that saw the result saw it in the reverse of the order in
\* which they were called.
returns_in_reverse(the_conn) ==
    \A i, j \in 1..Len(the_conn.returns) :
        /\ called(the_conn, the_conn.returns[i])
        /\ i < j =>
            position(the_conn.calls, the_conn.returns[i])
                > position(the_conn.calls, the_conn.returns[j])

\* C19 as stated: each parsed Prepare passes through the packet services in
\* the order DebugLog, Expiry, FromPeer, ConfigService, EchoService,
\* telemetry gate, Router, each stage seeing the request before the next
\* one, and the response flows back through them in the reverse order.
C19_EchoBeforeGate ==
    conn.parsed =>
        /\ is_prefix(conn.calls,
                     <<"DebugService", "ExpiryService", "FromPeerService",
                       "ConfigService", "EchoService", "BigQueryService",
                       "RouterService">>)
        /\ returns_in_reverse(conn)

\* C19 amended: each parsed Prepare passes through the packet services in
\* the order DebugLog, Expiry, FromPeer, ConfigService, telemetry gate,
\* EchoService, Router, each stage seeing the request before the next one,
\* and the response flows back through them in the reverse order.
C19_GateBeforeEcho ==
    conn.parsed =>
        /\ is_prefix(conn.calls,
                     <<"DebugService", "ExpiryService", "FromPeerService",
                       "ConfigService", "BigQueryService", "EchoService",
                       "RouterService">>)
        /\ returns_in_reverse(conn)

\* C19 witness: a Prepare went down to the RouterService and its result came
\* back through the gate, the Expiry and the DebugLog.
C19_Witness ==
    /\ conn.parsed
    /\ conn.pc = "answered"
    /\ Len(conn.calls) = 7
    /\ conn.calls[5] = "BigQueryService"
    /\ conn.calls[6] = "EchoService"
    /\ conn.returns = <<"BigQueryService", "ExpiryService", "DebugService">>

\* The result that the client hands to the router is the Reject of the peer.
reject_of_peer ==
    /\ conn.pc = "router"
    /\ req.pc = "done"
    /\ is_some(req.final)
    /\ unwrap(req.final).kind = "response"
    /\ unwrap(req.final).status = 200
    /\ unwrap(req.result) = unwrap(req.final).body

\* C20: every Reject created inside the connector (by Expiry, FromPeer,
\* ConfigService, Echo, the telemetry gate, the Router or the outbound
\* client) has triggered_by equal to the connector's own address.
C20_TriggeredByConnector ==
    [][ ( /\ ~ is_some(conn.result)
          /\ is_some(conn'.result)
          /\ unwrap(conn'.result).type = "Reject"
          /\ ~ reject_of_peer ) =>
            unwrap(conn'.result).triggered_by = Some(ADDRESS) ]_vars

\* C20 witness: the Expiry service has answered R00, triggered by the
\* connector.
C20_Witness ==
    /\ conn.pc = "answered"
    /\ is_some(conn.result)
    /\ unwrap(conn.result).type = "Reject"
    /\ unwrap(conn.result).code = "R00"
    /\ unwrap(conn.result).triggered_by = Some(ADDRESS)

----------------------------------------------------------------------------
(* SpecStatus: the health of one route, with or without failover config,
   under any sequence of outcomes. *)

InitStatus ==
    /\ now = 0
    /\ debug_build \in BOOLEAN
    /\ \E failover \in {None} \cup {Some(config) : config \in FailoverConfigs} :
          routes = RoutingTable_new(
                      <<StaticRoute(<<>>, Bilateral(<<"http://peer">>, None),
                                    failover, 1)>>,
                      "Destination", 0)
    /\ table_src = "new"
    /\ fails_in_row = 0
    /\ fresh_fails = 0
    /\ req = IdleReq
    /\ IngressOff

SpecStatus == InitStatus /\ [][NextRoute]_vars

----------------------------------------------------------------------------
(* Claims on the status of one route (SpecRoute, SpecStatus). *)

the_status == the_route.status

\* An outcome is applied to the route in this step; it is a failure, or a
\* success.
OutcomeStep == now' = now

applied_fails == IF fails_in_row' = 0 THEN 0 ELSE 1

\* The counters of the Healthy status that the outcome is accounted to: those
\* of a fresh window if more than MAX_WINDOW_DURATION has passed since
\* updated_at.
window_is_stale == now - the_status.updated_at > MAX_WINDOW_DURATION

remaining_before ==
    IF window_is_stale THEN the_failover.window_size
    ELSE the_status.remaining

failures_before == IF window_is_stale THEN 0 ELSE the_status.failures

\* C26 as stated: when an outcome is applied to a Healthy route, the route
\* becomes Unhealthy{until = now + fail_duration} exactly when the failures
\* counted in the current window, including this outcome, satisfy
\* failures / window_size >= fail_ratio, even if the window still has
\* remaining slots; otherwise it stays Healthy.
C26_UnhealthyExactlyAtRatio ==
    [][ (OutcomeStep /\ the_status.kind = "Healthy") =>
            IF n_over_window_at_least_ratio(failures_before + applied_fails)
            THEN the_route'.status
                    = Unhealthy(now + the_failover.fail_duration)
            ELSE the_route'.status.kind = "Healthy" ]_vars

\* C26 but for the panic: the same, unless the Healthy status has no
\* remaining slot and the build checks overflow, where the update panics.
C26_UnhealthyAtRatioUnlessPanics ==
    [][ (OutcomeStep /\ the_status.kind = "Healthy") =>
            IF remaining_before = 0 /\ debug_build
            THEN the_route'.status = Poisoned
            ELSE IF n_over_window_at_least_ratio(
                        failures_before + applied_fails)
            THEN the_route'.status
                    = Unhealthy(now + the_failover.fail_duration)
            ELSE the_route'.status.kind = "Healthy" ]_vars

\* C26 witness: a route with slots remaining in its window is Unhealthy
\* after its second failure in a row.
C26_Witness ==
    /\ the_status.kind = "Unhealthy"
    /\ the_failover.window_size = 3
    /\ fresh_fails = 2
    /\ the_status.until = now + the_failover.fail_duration

\* C27: when an outcome is applied to an Unhealthy route at a time
\* now >= until, the route becomes Healthy with updated_at = now and with
\* remaining = window_size - 1, failures = 1 if the outcome is a failure, or
\* remaining = window_size, failures = 0 if it is a success.
C27_RecoversAtUntil ==
    [][ (OutcomeStep /\ the_status.kind = "Unhealthy"
            /\ now >= the_status.until) =>
            the_route'.status =
                IF applied_fails = 1
                THEN Healthy(the_failover.window_size - 1, 1, now)
                ELSE Healthy(the_failover.window_size, 0, now) ]_vars

\* C27 witness: a route that was Unhealthy is Healthy again by a failure,
\* which its window counts.
C27_Witness ==
    /\ the_status.kind = "Healthy"
    /\ fresh_fails = -1
    /\ fails_in_row >= 1
    /\ the_status.updated_at = now
    /\ the_status.failures = 1
    /\ the_status.remaining = the_failover.window_size - 1

\* C28: applying any outcome, success or failure, leaves a route's status
\* unchanged when the route is Infallible, and when it is Unhealthy and
\* now < until (failures observed during the unhealthy period do not extend
\* until).
C28_StatusUnchanged ==
    [][ (\/ the_status.kind = "Infallible"
         \/ the_status.kind = "Unhealthy" /\ now < the_status.until) =>
            the_route'.status = the_status ]_vars

\* C28 witness: a failure has been applied to a route that is Unhealthy until
\* a later time, after the failure that made it Unhealthy.
C28_Witness ==
    /\ the_status.kind = "Unhealthy"
    /\ now < the_status.until
    /\ fails_in_row >= 2
    /\ fresh_fails = -1

\* C28 witness of the other case: failures have been applied to an
\* Infallible route.
C28_WitnessInfallible ==
    /\ the_status.kind = "Infallible"
    /\ fails_in_row >= 2

\* C29 as stated: for a Healthy route the counters restart from a fresh
\* window (remaining = window_size, failures = 0) in exactly two cases:
\* before an outcome is accounted, if more than 5 minutes have passed since
\* updated_at; and after an outcome is accounted, if it brings remaining to 0
\* without reaching fail_ratio.  In every other case an outcome decrements
\* remaining by one and increments failures only if it is a failure.
C29_CountersRestart ==
    [][ (OutcomeStep /\ the_status.kind = "Healthy") =>
            /\ remaining_before >= 1
            /\ the_route'.status.kind \in {"Healthy", "Unhealthy"}
            /\ the_route'.status.kind = "Healthy" =>
                the_route'.status =
                    IF remaining_before - 1 = 0
                    THEN Healthy(the_failover.window_size, 0, now)
                    ELSE Healthy(remaining_before - 1,
                                 failures_before + applied_fails, now) ]_vars

\* C29 but for the panic: the same, unless the Healthy status has no
\* remaining slot, where the decrement wraps or (in a build that checks
\* overflow) panics.
C29_CountersRestartUnlessUnderflow ==
    [][ (OutcomeStep /\ the_status.kind = "Healthy"
            /\ remaining_before >= 1) =>
            /\ the_route'.status.kind \in {"Healthy", "Unhealthy"}
            /\ the_route'.status.kind = "Healthy" =>
                the_route'.status =
                    IF remaining_before - 1 = 0
                    THEN Healthy(the_failover.window_size, 0, now)
                    ELSE Healthy(remaining_before - 1,
                                 failures_before + applied_fails, now) ]_vars

\* C29 witness: the window of a Healthy route has restarted after its last
\* slot was used by a success, later than any failure.
C29_Witness ==
    /\ the_status.kind = "Healthy"
    /\ the_status.remaining = the_failover.window_size
    /\ the_status.failures = 0
    /\ the_status.updated_at = now
    /\ now > 0
    /\ fails_in_row = 0

\* C30 as stated: a success outcome never moves a route from Healthy to
\* Unhealthy: in every reachable state, only applying a failure can demote a
\* route.
C30_SuccessNeverDemotes ==
    [][ (OutcomeStep /\ the_status.kind = "Healthy" /\ applied_fails = 0) =>
            the_route'.status.kind # "Unhealthy" ]_vars

\* What holds instead of C30: a success moves a Healthy route to Unhealthy
\* only if the failures that its window already counts reach fail_ratio.
C30_SuccessDemotesOnlyAtRatio ==
    [][ (OutcomeStep /\ the_status.kind = "Healthy" /\ applied_fails = 0
            /\ the_route'.status.kind = "Unhealthy") =>
            n_over_window_at_least_ratio(failures_before) ]_vars

\* C30 witness: a route is Unhealthy and the last outcome applied to it was
\* a success.
C30_Witness ==
    /\ the_status.kind = "Unhealthy"
    /\ fails_in_row = 0
    /\ the_status.until = now + the_failover.fail_duration
    /\ now > 0

----------------------------------------------------------------------------
(* Claims on SpecIngress: what goes back to the caller. *)

\* The final response of the next-hop peer has been received whole with
\* status 200 and a Fulfill or a Reject as its body.
peer_packet_received ==
    /\ conn.pc = "router"
    /\ req.pc \in {"completed", "done"}
    /\ is_some(req.final)
    /\ unwrap(req.final).kind = "response"
    /\ unwrap(req.final).status = 200
    /\ ~ unwrap(req.final).broken
    /\ unwrap(req.final).body.type \in {"Fulfill", "Reject"}

the_peer_packet == unwrap(req.final).body

\* C21: a Fulfill or Reject received from the next-hop peer is returned to
\* the ingress caller unchanged (a Reject keeps its original code, message,
\* data and triggered_by), unless the Expiry timeout fires first: once the
\* peer's packet has been received, the request is answered with nothing
\* but that packet, as the result of the services and as the body of the 200
\* response.
C21_PeerPacketUnchanged ==
    [][ (peer_packet_received /\ conn'.pc # "router") =>
            /\ conn'.pc = "answered"
            /\ unwrap(conn'.result) = the_peer_packet
            /\ unwrap(conn'.response) = Response(200, the_peer_packet) ]_vars

\* C21 witness: the caller has been answered with the peer's Reject F99,
\* triggered by the peer, with the peer's message and data.
C21_Witness ==
    /\ conn.pc = "answered"
    /\ conn.calls # <<>>
    /\ conn.calls[Len(conn.calls)] = "RouterService"
    /\ is_some(conn.result)
    /\ unwrap(conn.result) =
        Reject("F99", "Some error", Some(OTHER_ADDRESS), <<"reject data">>)
    /\ unwrap(conn.response).body = unwrap(conn.result)

----------------------------------------------------------------------------
(* Claims on Spec: repeated resolutions. *)

\* Every Prepare resolves after the step as it did before it.
resolutions_repeat ==
    \A prepare \in Prepares :
        resolve(routes', prepare, now') = resolve(routes, prepare, now)

\* The clock passes the `until` of no Unhealthy route in the step.
no_until_passes ==
    \A g \in 1..Len(routes.groups) :
        \A i \in 1..Len(routes.groups[g].routes) :
            LET status == routes.groups[g].routes[i].status
            IN  status.kind = "Unhealthy" =>
                    ((status.until < now) <=> (status.until < now'))

----------------------------------------------------------------------------
(* Claims on SpecIngress: ConfigService. *)

\* The peer that the request's token authorizes.
the_peer == unwrap(find_peer(PEERS, the_request.authorization))

\* The ConfigService has been called with a Prepare addressed to
\* peer.config.
ildcp_requested ==
    /\ conn.parsed
    /\ called(conn, "ConfigService")
    /\ the_prepare.destination = ILDCP_DESTINATION

\* The ConfigService was the last service called, and the caller has its
\* answer.
answered_by_config ==
    /\ conn.pc = "answered"
    /\ conn.calls[Len(conn.calls)] = "ConfigService"
    /\ req.pc = "idle"
    /\ is_some(conn.result)

\* The peer is a child and the header holds an address segment.
child_with_segment ==
    /\ the_peer.relation = "Child"
    /\ is_some(the_request.peer_name)
    /\ validate_address_segment(unwrap(the_request.peer_name))

\* The address of the peer with the header as one more segment.
generated_address ==
    the_peer.address \o <<DOT>> \o unwrap(the_request.peer_name)

\* The generated address is at most 1023 bytes long.
generated_address_fits ==
    /\ is_some(the_request.peer_name)
    /\ Len(generated_address) <= 1023

fulfilled_with_generated_address ==
    /\ unwrap(conn.result).type = "Fulfill"
    /\ unwrap(conn.result).data.client_address = generated_address
    /\ unwrap(conn.result).data.asset_scale = ILDCP_CONFIG.asset_scale
    /\ unwrap(conn.result).data.asset_code = ILDCP_CONFIG.asset_code

rejected_as_bad_request ==
    /\ unwrap(conn.result).type = "Reject"
    /\ unwrap(conn.result).code = "F00"

\* C23 as stated: a Prepare addressed to peer.config is never forwarded
\* downstream by ConfigService: it is answered with a Fulfill whose ILDCP
\* client_address is the peer's from_address plus exactly one extra segment
\* equal to the ILP-Peer-Name header when the peer's relation is Child and
\* the header is present and a valid address segment, and with Reject
\* F00_BAD_REQUEST otherwise.
C23_FulfillForChildWithSegment ==
    ildcp_requested =>
        /\ answered_by_config
        /\ IF child_with_segment THEN fulfilled_with_generated_address
           ELSE rejected_as_bad_request

\* C23 amended: a Prepare addressed to peer.config is never forwarded
\* downstream by ConfigService: it is answered with a Fulfill whose ILDCP
\* client_address is the peer's from_address plus exactly one extra segment
\* equal to the ILP-Peer-Name header when the peer's relation is Child, the
\* header is present and a valid address segment, and the generated address
\* is at most 1023 bytes long, and with Reject F00_BAD_REQUEST otherwise.
C23_FulfillForChildWithSegmentThatFits ==
    ildcp_requested =>
        /\ answered_by_config
        /\ IF generated_address_fits /\ child_with_segment
           THEN fulfilled_with_generated_address
           ELSE rejected_as_bad_request

\* C23 witness: the child's ILDCP request with ILP-Peer-Name "c" has been
\* answered with a Fulfill for the address "a.c.c".
C23_Witness ==
    /\ ildcp_requested
    /\ answered_by_config
    /\ the_request.peer_name = Some(<<99>>)
    /\ unwrap(conn.result).type = "Fulfill"
    /\ unwrap(conn.result).data.client_address = <<97, DOT, 99, DOT, 99>>

\* C23 witness: the child's ILDCP request whose generated address would be
\* 1024 bytes long has been answered with Reject F00.
C23_WitnessTooLong ==
    /\ ildcp_requested
    /\ answered_by_config
    /\ child_with_segment
    /\ Len(generated_address) = 1024
    /\ rejected_as_bad_request

----------------------------------------------------------------------------
(* Claims on SpecIngress: EchoService. *)

\* The Prepare read from the body is addressed to the connector and reaches
\* the EchoService in this step.
echo_requested ==
    /\ BodyRead
    /\ conn'.parsed
    /\ called(conn', "EchoService")
    /\ the_prepare.destination = ADDRESS

\* The source address of the echo request, if its data is the magic followed
\* by a valid address.
echo_source == deserialize_echo_request(the_prepare.data)

\* The RouterService is handed its Prepare in this step.
RouterCallStep == conn.pc = "router" /\ req.pc = "idle" /\ req'.pc # "idle"

\* C24: for a Prepare whose destination equals the connector's own address:
\* if its data is the echo-request magic followed by a valid source address
\* S, exactly one Prepare is forwarded downstream, with destination S, data
\* equal to the echo-response magic, expires_at reduced by exactly 1 s and
\* the same amount and execution_condition; otherwise the result is Reject
\* F01_INVALID_PACKET and nothing is forwarded.
C24_EchoResponseForwarded ==
    [][ /\ (echo_requested /\ is_some(echo_source)) =>
            /\ conn'.pc = "router"
            /\ conn'.calls[Len(conn'.calls)] = "RouterService"
            /\ req' = IdleReq
            /\ unwrap(conn'.outgoing) =
                [type |-> "Prepare",
                 destination |-> unwrap(echo_source),
                 data |-> ECHO_RESPONSE,
                 expires_at |-> the_prepare.expires_at - 1,
                 amount |-> the_prepare.amount,
                 execution_condition |-> the_prepare.execution_condition]
        /\ (echo_requested /\ ~ is_some(echo_source)) =>
            /\ conn'.pc = "answered"
            /\ conn'.calls[Len(conn'.calls)] = "EchoService"
            /\ ~ is_some(conn'.outgoing)
            /\ req' = IdleReq
            /\ unwrap(conn'.result).type = "Reject"
            /\ unwrap(conn'.result).code = "F01"
        /\ RouterCallStep =>
            /\ req'.prepare = conn.outgoing
            /\ conn' = conn
        /\ (conn.pc = "router" /\ req.pc # "idle") =>
            (req'.pc # "idle" \/ conn'.pc # "router") ]_vars

\* C24 witness: the echo request from "d.a" with amount 0, condition <<4>>
\* and expiry 120 has been handed to the router as the echo response for
\* "d.a" with expiry 119.
C24_Witness ==
    /\ conn.pc = "router"
    /\ req.pc # "idle"
    /\ the_prepare.destination = ADDRESS
    /\ the_prepare.amount = 0
    /\ the_prepare.execution_condition = <<4>>
    /\ the_prepare.expires_at = 120
    /\ req.prepare =
        Some([type |-> "Prepare", destination |-> <<100, DOT, 97>>,
              data |-> ECHO_RESPONSE, expires_at |-> 119, amount |-> 0,
              execution_condition |-> <<4>>])

\* C24 witness: an echo request whose data is cut short has been answered
\* with Reject F01 by the EchoService.
C24_WitnessMalformed ==
    /\ conn.pc = "answered"
    /\ conn.parsed
    /\ the_prepare.destination = ADDRESS
    /\ the_prepare.data = ECHO_REQUEST_PREFIX \o <<5, 98>>
    /\ conn.calls # <<>>
    /\ conn.calls[Len(conn.calls)] = "EchoService"
    /\ unwrap(conn.result).type = "Reject"
    /\ unwrap(conn.result).code = "F01"

----------------------------------------------------------------------------
(* Claims on SpecDrain: the shutdown drain. *)

\* A step of BigQueryService::stop.
StopStartStep == pre_stop.pc = "stop" /\ pre_stop'.pc # "stop"

StopPollStep == pre_stop.pc = "polling" /\ pre_stop' # pre_stop

\* BigQueryService::stop has returned.
stop_returned == pre_stop.pc = "answered" /\ pre_stop.stopped

\* C25: the telemetry shutdown drain always terminates: it requests one
\* flush of every queue, then polls at most ATTEMPTS times (MaxAttempts in
\* the model), returning as soon as all queues are idle and otherwise after
\* the last poll even if rows remain unlogged.
C25_DrainTerminates ==
    /\ [](pre_stop.attempts <= MaxAttempts)
    /\ [][ /\ StopStartStep =>
                /\ logger' = flush_now(logger)
                /\ pre_stop'.pc = "polling"
                /\ pre_stop'.attempts = 0
           /\ StopPollStep =>
                /\ logger' = logger
                /\ IF drained \/ pre_stop.attempts = MaxAttempts
                   THEN pre_stop'.pc = "answered" /\ pre_stop'.stopped
                   ELSE /\ pre_stop'.pc = "polling"
                        /\ pre_stop'.attempts = pre_stop.attempts + 1 ]_vars
    /\ (pre_stop.pc = "stop") ~> stop_returned

\* C25 witness: the drain has returned after its last poll although a batch
\* is still being inserted.
C25_Witness ==
    /\ stop_returned
    /\ pre_stop.attempts = MaxAttempts
    /\ ~ drained

----------------------------------------------------------------------------
(* Claims on SpecRoute: the counters of a Healthy status. *)

\* The counters of a Healthy status are in range.
counters_in_range ==
    /\ 1 <= the_status.remaining
    /\ the_status.remaining <= the_failover.window_size
    /\ the_status.failures
        <= the_failover.window_size - the_status.remaining

\* C31 as stated: for every window_size >= 1 and fail_ratio in (0, 1], every
\* Healthy status reachable from a route's initial status
\* (Healthy{remaining = window_size, failures = 0}) by any sequence of
\* outcomes satisfies 1 <= remaining <= window_size and
\* failures <= window_size - remaining, so decrementing remaining never
\* underflows.
C31_CountersInRange ==
    the_status.kind = "Healthy" => counters_in_range

\* What holds instead: the counters of a reachable Healthy status are in
\* range when window_size is at least 2.
C31_CountersInRangeForWiderWindows ==
    (the_status.kind = "Healthy" /\ the_failover.window_size >= 2) =>
        counters_in_range

\* C31 witness: a route with window_size 1 that recovered by a failure is
\* Healthy with no slot remaining.
C31_Witness ==
    /\ the_status.kind = "Healthy"
    /\ the_failover.window_size = 1
    /\ the_status.remaining = 0
    /\ the_status.failures = 1

----------------------------------------------------------------------------
(* SpecUpdaters: calls of DynamicRoute::update on one route, running
   concurrently on the threads of the runtime.  Each call takes its
   Instant::now(), compares the status with Infallible under the read lock,
   then takes the write lock for the rest of update_with_now. *)

\* The number of threads, the number of calls they make in all, and the
\* instant at which the clock of this specification stops.
NumUpdaters == 2

MaxUpdates == 2

MaxUpdaterNow == 1

IdleUpdater == [pc |-> "idle", is_success |-> TRUE, now |-> 0]

\* The failover configs of the routes updated concurrently; their windows
\* have at least two slots.
UpdaterConfigs ==
    {RouteFailover(window_size, fail_ratio, fail_duration) :
        window_size \in 2..MaxWindowSize, fail_ratio \in FailRatios,
        fail_duration \in FailDurations}

\* The route as DynamicRoute::new made it.
UpdatedRoute(failover) ==
    DynamicRoute_new(
        [StaticRoute(<<>>, Bilateral(<<"http://peer">>, None), failover, 1)
            EXCEPT !.target_prefix = <<>>],
        0)

\* updaters.sub_panics: `Instant - Instant` panics when the right operand is
\* the later one (std before 1.60); otherwise the difference is zero.
InitUpdaters ==
    /\ now = 0
    /\ debug_build \in BOOLEAN
    /\ \E failover \in {None} \cup {Some(config) : config \in UpdaterConfigs} :
          routes = RoutingTable_new(
                      <<StaticRoute(<<>>, Bilateral(<<"http://peer">>, None),
                                    failover, 1)>>,
                      "Destination", 0)
    /\ table_src = "new"
    /\ fails_in_row = 0
    /\ fresh_fails = 0
    /\ req = IdleReq
    /\ pre_stop_path = None
    /\ stopping = FALSE
    /\ pre_stop = IdlePreStop
    /\ logger = DummyLogger
    /\ conn = IdleConn
    /\ \E sub_panics \in BOOLEAN :
          updaters = [sub_panics |-> sub_panics,
                      calls |-> [i \in 1..NumUpdaters |-> IdleUpdater],
                      started |-> 0,
                      applied |-> <<>>]
    /\ stop_calls = <<>>
    /\ logger_queue = None

\* update_with_now under the write lock, with the `now` that the call took
\* before it waited for the lock: `now - *updated_at` in the Healthy arm
\* panics, where the build's Instant does, if another call with a later `now`
\* has written updated_at in between.
update_with_instant(route, is_success, t, sub_panics) ==
    IF /\ route.status.kind = "Healthy"
       /\ t < route.status.updated_at
       /\ sub_panics
    THEN Poisoned
    ELSE update_with_now(route, is_success, t)

\* DynamicRoute::update: `time::Instant::now()`.
UpdateStart(i, is_success) ==
    /\ updaters.calls[i].pc = "idle"
    /\ updaters.started < MaxUpdates
    /\ updaters' = [updaters EXCEPT
                        !.calls[i] = [pc |-> "called",
                                      is_success |-> is_success,
                                      now |-> now],
                        !.started = @ + 1]
    /\ UNCHANGED <<now, debug_build, routes, table_src, fails_in_row,
                   fresh_fails, req, stop_calls, logger_queue>>
    /\ UNCHANGED ingress_vars

\* `*self.status.read().unwrap() == RouteStatus::Infallible`
UpdateRead(i) ==
    /\ updaters.calls[i].pc = "called"
    /\ LET status == route_at(routes, TheRoute).status
       IN  updaters' = [updaters EXCEPT
                !.calls[i].pc =
                    IF status.kind = "Poisoned" THEN "panicked"
                    ELSE IF status = Infallible THEN "idle"
                    ELSE "checked"]
    /\ UNCHANGED <<now, debug_build, routes, table_src, fails_in_row,
                   fresh_fails, req, stop_calls, logger_queue>>
    /\ UNCHANGED ingress_vars

\* `self.status.write().unwrap()` and the match under the write guard.
UpdateWrite(i) ==
    /\ updaters.calls[i].pc = "checked"
    /\ LET call == updaters.calls[i]
           route == route_at(routes, TheRoute)
           status == update_with_instant(route, call.is_success, call.now,
                                         updaters.sub_panics)
       IN  IF route.status.kind = "Poisoned"
           THEN /\ updaters' = [updaters EXCEPT !.calls[i].pc = "panicked"]
                /\ UNCHANGED routes
           ELSE /\ routes' =
                    [routes EXCEPT
                        !.groups[TheRoute.group_index]
                            .routes[TheRoute.route_index].status = status]
                /\ updaters' = [updaters EXCEPT
                        !.calls[i].pc = IF status.kind = "Poisoned"
                                        THEN "panicked" ELSE "idle",
                        !.applied = Append(@, [is_success |-> call.is_success,
                                               now |-> call.now])]
    /\ UNCHANGED <<now, debug_build, table_src, fails_in_row, fresh_fails,
                   req, stop_calls, logger_queue>>
    /\ UNCHANGED ingress_vars

UpdaterTick ==
    /\ now < MaxUpdaterNow
    /\ now' = now + 1
    /\ UNCHANGED <<debug_build, routes, table_src, fails_in_row, fresh_fails,
                   req, concurrent_vars>>
    /\ UNCHANGED ingress_vars

NextUpdaters ==
    \/ \E i \in 1..NumUpdaters, is_success \in BOOLEAN :
            UpdateStart(i, is_success)
    \/ \E i \in 1..NumUpdaters : UpdateRead(i)
    \/ \E i \in 1..NumUpdaters : UpdateWrite(i)
    \/ UpdaterTick

SpecUpdaters == InitUpdaters /\ [][NextUpdaters]_vars

----------------------------------------------------------------------------
(* Claims on SpecUpdaters. *)

\* The status after the outcomes of `applied` have been applied to the route
\* one at a time, in that order.
RECURSIVE one_at_a_time(_, _)
one_at_a_time(route, applied) ==
    IF applied = <<>> THEN route.status
    ELSE one_at_a_time(
            [route EXCEPT
                !.status = update_with_now(route, applied[1].is_success,
                                           applied[1].now)],
            Tail(applied))

\* The route as it was made.
the_new_route == UpdatedRoute(the_route.config.failover)

\* C32 as stated: concurrent health updates of the same route are
\* linearizable: the resulting status always equals the result of applying
\* the same outcomes one at a time in some order (here: the order in which
\* the calls took the write lock), so no update is lost or applied to a
\* half-updated status.
C32_Linearizable ==
    the_status = one_at_a_time(the_new_route, updaters.applied)

\* What holds instead: unless a call has panicked under the write lock, the
\* status equals the result of applying the outcomes one at a time in the
\* order in which the calls took the write lock; and a call panics there
\* only in a build whose `Instant - Instant` panics.
C32_LinearizableUnlessInstantPanics ==
    /\ the_status.kind # "Poisoned" =>
            the_status = one_at_a_time(the_new_route, updaters.applied)
    /\ the_status.kind = "Poisoned" => updaters.sub_panics

\* C32 witness: two calls have been applied, the second with the earlier
\* `now`, and the status lock is poisoned.
C32_Witness ==
    /\ Len(updaters.applied) = 2
    /\ updaters.applied[2].now < updaters.applied[1].now
    /\ the_status.kind = "Poisoned"

----------------------------------------------------------------------------
(* Claims on Spec: set_routes while requests are in flight. *)

\* The routes of a table without their statuses.
static_routes(table) ==
    [partition_by |-> table.partition_by,
     groups |-> [g \in DOMAIN table.groups |->
        [target_prefix |-> table.groups[g].target_prefix,
         routes |-> [r \in DOMAIN table.groups[g].routes |->
                        table.groups[g].routes[r].config]]]]

\* The tables of the configuration and those given to set_routes, in full.
whole_tables ==
    {static_routes(RoutingTable_new(deserialize(config.routes),
                                    config.routing_partition, 0)) :
        config \in Configs}
    \cup {static_routes(RoutingTable_new(list, partition_by, 0)) :
            list \in SetRoutesLists,
            partition_by \in {"Destination", "ExecutionCondition"}}

\* C33: the Router never holds the routing-table lock while an outbound HTTP
\* request is in flight, so set_routes can complete while requests are
\* awaiting their peer, and every resolution sees either the old table or
\* the new one in full.
C33_SetRoutesWhileInFlight ==
    /\ [](req.pc = "sent" =>
            /\ ~ req.holds_routes
            /\ ENABLED (\E list \in SetRoutesLists : SetRoutes(list)))
    /\ [](static_routes(routes) \in whole_tables)
    /\ [][ForwardStep =>
            req'.resolved =
                Some(resolve(routes, unwrap(req'.prepare), now))]_vars

\* C33 witness: set_routes has replaced the table while the request was
\* awaiting its peer.
C33_Witness ==
    /\ req.pc = "sent"
    /\ req.swapped
    /\ table_src = "list"

\* The routes of the table whose status the step changes.
routes_changed ==
    {index \in {RouteIndex(g, r) : g \in 0..MaxRoutes, r \in 0..MaxRoutes} :
        /\ index_in_bounds(routes, index)
        /\ index_in_bounds(routes', index)
        /\ route_at(routes', index).status # route_at(routes, index).status}

\* C34 as stated: if set_routes replaces the table while a request is in
\* flight, the health update performed when that request completes is
\* applied only to the route the request was sent on: it never changes the
\* status of a route of the new table that did not carry the request, and it
\* never indexes outside the new table.
C34_StaleUpdateStaysOnRoute ==
    [][(InspectStep /\ req.swapped /\ req.has_failover) =>
        /\ index_in_bounds(routes, req.route_index)
        /\ \A index \in routes_changed :
                route_at(routes, index).config = unwrap(req.config)
    ]_vars

\* C34 witness: the table was replaced in flight, and the outcome of the
\* request has made unavailable the route at the selected index of the new
\* table, which is not the route the request was sent on.
C34_Witness ==
    /\ req.pc = "done"
    /\ req.swapped
    /\ req.applied = "failure"
    /\ index_in_bounds(routes, req.route_index)
    /\ route_at(routes, req.route_index).config # unwrap(req.config)
    /\ route_at(routes, req.route_index).status.kind = "Unhealthy"

\* C34, out of bounds: the table was replaced in flight by one that has no
\* route at the selected index, and the update has panicked.
C34_WitnessOutOfBounds ==
    /\ req.pc = "panicked"
    /\ req.swapped
    /\ ~ index_in_bounds(routes, req.route_index)

----------------------------------------------------------------------------
(* Claims on SpecExpiry. *)

\* The timeout of the ExpiryService ends the request that awaits its peer:
\* only ExpiryTimeout takes the router from "sent" to idle.
ExpiryTimeoutStep == awaiting_peer /\ req'.pc = "idle"

\* C35: if the Expiry timeout cancels a request while its outbound call is
\* still pending, the selected route's health status is not updated for that
\* request: a timed-out call is counted neither as a success nor as a
\* failure.
C35_TimedOutNotCounted ==
    [][(ExpiryTimeoutStep /\ req.has_failover) =>
        /\ routes' = routes
        /\ is_some(conn'.result)
        /\ unwrap(conn'.result).type = "Reject"
        /\ unwrap(conn'.result).code \in {"R00", "T00"}
    ]_vars

\* C35 witness: the request sent on a route with failover was answered with
\* the Reject of the timeout, and the window of the route still has every
\* slot, though requests have been counted on the route before.
C35_Witness ==
    /\ conn.pc = "answered"
    /\ is_some(conn.result)
    /\ unwrap(conn.result).type = "Reject"
    /\ unwrap(conn.result).code = "R00"
    /\ route_at(routes, TheRoute).status.kind = "Healthy"
    /\ route_at(routes, TheRoute).status.remaining = 1

----------------------------------------------------------------------------
(* SpecGets: requests that reach PreStopFilter::call on connections served
   concurrently by the threads of the runtime.  A call reads the flag under
   the read lock, releases it, and then, for a GET to pre_stop_path, sets the
   flag under the write lock and invokes the stop callback. *)

\* The number of connections, and of the requests they bring in all.
NumGets == 2

MaxGets == 3

GetRequests ==
    {HttpRequest("GET", PRE_STOP_PATH, None, None,
                 RequestBody(<<10>>, FALSE, PLAIN_PREPARE)),
     HttpRequest("POST", "/", Some(TOKEN_CHILD), None,
                 RequestBody(<<10>>, FALSE, PLAIN_PREPARE))}

IdleGet == [pc |-> "idle", request |-> None, response |-> None]

InitGets ==
    /\ now = 0
    /\ debug_build \in BOOLEAN
    /\ routes = RoutingTable_new(deserialize(CONFIG_INGRESS), "Destination", 0)
    /\ table_src = "map"
    /\ fails_in_row = 0
    /\ fresh_fails = 0
    /\ req = IdleReq
    /\ pre_stop_path \in {None, Some(PRE_STOP_PATH)}
    /\ stopping = FALSE
    /\ pre_stop = IdlePreStop
    /\ logger = DummyLogger
    /\ conn = IdleConn
    /\ updaters = <<>>
    /\ stop_calls = [calls |-> [i \in 1..NumGets |-> IdleGet],
                     arrived |-> 0,
                     invoked |-> 0]
    /\ logger_queue = None

\* PreStopFilter::call is entered; without a path the request is passed on.
GetArrive(i, request) ==
    /\ stop_calls.calls[i].pc = "idle"
    /\ stop_calls.arrived < MaxGets
    /\ stop_calls' = [stop_calls EXCEPT
            !.calls[i] = [IdleGet EXCEPT
                            !.pc = IF is_some(pre_stop_path)
                                   THEN "arrived" ELSE "next",
                            !.request = Some(request)],
            !.arrived = @ + 1]
    /\ UNCHANGED <<now, debug_build, routes, table_src, fails_in_row,
                   fresh_fails, req, updaters, logger_queue>>
    /\ UNCHANGED ingress_vars

\* The block under `self.data.stopping.read()`, and the test is_pre_stop
\* that follows it.
GetRead(i) ==
    /\ stop_calls.calls[i].pc = "arrived"
    /\ LET by_pre_stop == PreStopFilter_call(
                pre_stop_path, stopping, unwrap(stop_calls.calls[i].request))
       IN  stop_calls' = [stop_calls EXCEPT
                !.calls[i].pc =
                    IF by_pre_stop.kind = "stop" THEN "checked"
                    ELSE IF by_pre_stop.kind = "next" THEN "next"
                    ELSE "answered",
                !.calls[i].response =
                    IF by_pre_stop.kind = "answer"
                    THEN Some(by_pre_stop.response) ELSE None]
    /\ UNCHANGED <<now, debug_build, routes, table_src, fails_in_row,
                   fresh_fails, req, updaters, logger_queue>>
    /\ UNCHANGED ingress_vars

\* The block under `self.data.stopping.write()`, and `(data.stop)()`.
GetStop(i) ==
    /\ stop_calls.calls[i].pc = "checked"
    /\ stopping' = TRUE
    /\ stop_calls' = [stop_calls EXCEPT !.calls[i].pc = "stop",
                                        !.invoked = @ + 1]
    /\ UNCHANGED <<now, debug_build, routes, table_src, fails_in_row,
                   fresh_fails, req, updaters, logger_queue>>
    /\ UNCHANGED <<pre_stop_path, pre_stop, logger, conn>>

\* The future of the stop callback completes: 200.
GetStopped(i) ==
    /\ stop_calls.calls[i].pc = "stop"
    /\ stop_calls' = [stop_calls EXCEPT
            !.calls[i].pc = "answered",
            !.calls[i].response = Some(Response(200, ""))]
    /\ UNCHANGED <<now, debug_build, routes, table_src, fails_in_row,
                   fresh_fails, req, updaters, logger_queue>>
    /\ UNCHANGED ingress_vars

\* The response is sent (or the next middleware has the request).
GetClose(i) ==
    /\ stop_calls.calls[i].pc \in {"answered", "next"}
    /\ stop_calls' = [stop_calls EXCEPT !.calls[i] = IdleGet]
    /\ UNCHANGED <<now, debug_build, routes, table_src, fails_in_row,
                   fresh_fails, req, updaters, logger_queue>>
    /\ UNCHANGED ingress_vars

NextGets ==
    \/ \E i \in 1..NumGets, request \in GetRequests : GetArrive(i, request)
    \/ \E i \in 1..NumGets : GetRead(i)
    \/ \E i \in 1..NumGets : GetStop(i)
    \/ \E i \in 1..NumGets : GetStopped(i)
    \/ \E i \in 1..NumGets : GetClose(i)

SpecGets == InitGets /\ [][NextGets]_vars

----------------------------------------------------------------------------
(* Claims on SpecGets. *)

\* C36 as stated: the drain callback is invoked at most once over the life
\* of the process, however many GETs to pre_stop_path arrive and however
\* they interleave.
C36_StopInvokedOnce == stop_calls.invoked <= 1

\* What holds instead: the callback is invoked only by GETs to pre_stop_path
\* that read the flag before it was set, once by each; a GET that reads the
\* flag after it was set is answered 503.
C36_StopInvokedByEarlyReaders ==
    [][ /\ stop_calls'.invoked <= stop_calls.invoked + 1
        /\ stop_calls'.invoked # stop_calls.invoked =>
                \E i \in 1..NumGets :
                    /\ stop_calls.calls[i].pc = "checked"
                    /\ stop_calls'.calls[i].pc = "stop"
        /\ \A i \in 1..NumGets :
                (stopping /\ stop_calls.calls[i].pc = "arrived"
                    /\ stop_calls'.calls[i].pc # "arrived") =>
                        stop_calls'.calls[i].response =
                            Some(Response(503, "service stopping"))
    ]_vars

\* C36 witness: two GETs to pre_stop_path have both invoked the callback.
C36_Witness ==
    /\ stopping
    /\ stop_calls.invoked = 2
    /\ \E i, j \in 1..NumGets :
            /\ i # j
            /\ stop_calls.calls[i].pc = "stop"
            /\ stop_calls.calls[j].pc = "stop"

----------------------------------------------------------------------------
(* Claims on SpecIngress: the source of the packet. *)

\* The FromPeerService returned the result itself.
returned_by_from_peer ==
    conn.calls = <<"DebugService", "ExpiryService", "FromPeerService">>

\* C37: in the composed connector, every request admitted by the AuthToken
\* middleware is matched to a configured peer by FromPeer, so the Reject
\* F00_BAD_REQUEST "could not determine packet source" is unreachable.
C37_AdmittedHasPeer ==
    /\ ~ returned_by_from_peer
    /\ (is_some(conn.result) /\ unwrap(conn.result).type = "Reject") =>
            unwrap(conn.result).message # "could not determine packet source"

\* C37 witness: a request whose Authorization header has the prefix
\* "Bearer " was admitted, and the services below the FromPeerService were
\* called with it.
C37_Witness ==
    /\ conn.parsed
    /\ Len(conn.calls) >= 4
    /\ conn.calls[3] = "FromPeerService"
    /\ the_request.authorization = Some(BEARER_PREFIX \o TOKEN_PARENT)

----------------------------------------------------------------------------
(* services/big_query/logger_queue.rs: SpecQueue, one LoggerQueue whose
   try_write and flush_now are entered from the threads of the runtime while
   the spawned flush tasks run.  Rows are numbered in the order of the calls
   of try_write. *)

\* The number of calls of try_write.
MaxRows == 4

\* LoggerQueue::new, with the history of the rows: those handed back by
\* try_write (and why), those accepted, those acknowledged by an insert, the
\* retries of the last failed insert, and the size of the largest batch
\* given to insert_all.
LoggerQueue_new(batch_capacity) ==
    [batch_capacity |-> batch_capacity, queue |-> <<>>, insert |-> FALSE,
     flushes |-> {}, poisoned |-> FALSE,
     written |-> 0, handed_back |-> {}, accepted |-> {}, acknowledged |-> {},
     retries |-> None, largest |-> 0]

InitQueue ==
    /\ now = 0
    /\ debug_build \in BOOLEAN
    /\ routes = RoutingTable_new(deserialize(CONFIG_INGRESS), "Destination", 0)
    /\ table_src = "map"
    /\ fails_in_row = 0
    /\ fresh_fails = 0
    /\ req = IdleReq
    /\ pre_stop_path = None
    /\ stopping = FALSE
    /\ pre_stop = IdlePreStop
    /\ logger = DummyLogger
    /\ conn = IdleConn
    /\ updaters = <<>>
    /\ stop_calls = <<>>
    /\ \E batch_capacity \in 1..BatchCapacity :
            logger_queue = LoggerQueue_new(batch_capacity)

\* `tokio::spawn(self.clone().flush(std::mem::take(&mut data.queue)))`
spawn_flush(data, rows) ==
    [data EXCEPT !.queue = <<>>, !.insert = TRUE,
                 !.flushes = @ \cup {rows},
                 !.largest = IF Len(rows) > @ THEN Len(rows) ELSE @]

\* A try_write that queues rows while an insert is in flight.
TryWrite_while_inserting(locked) ==
    /\ logger_queue.written < MaxRows
    /\ LET row == logger_queue.written + 1
           entered == [logger_queue EXCEPT !.written = row]
           pushed == [entered EXCEPT !.queue = Append(@, row),
                                    !.accepted = @ \cup {row}]
       IN  logger_queue' =
            IF locked \/ logger_queue.poisoned
            THEN [entered EXCEPT !.handed_back = @ \cup {<<row, "locked">>}]
            ELSE IF is_queue_full(pushed.batch_capacity, Len(pushed.queue))
            THEN spawn_flush(pushed, pushed.queue)
            ELSE pushed
    /\ UNCHANGED <<now, debug_build, routes, table_src, fails_in_row,
                   fresh_fails, req, updaters, stop_calls>>
    /\ UNCHANGED ingress_vars

\* LoggerQueue::try_write; `locked`: try_lock finds the mutex held by another
\* thread.
TryWrite(locked) ==
    /\ logger_queue.written < MaxRows
    /\ LET row == logger_queue.written + 1
           entered == [logger_queue EXCEPT !.written = row]
           pushed == [entered EXCEPT !.queue = Append(@, row),
                                    !.accepted = @ \cup {row}]
       IN  logger_queue' =
            IF locked \/ logger_queue.poisoned
            THEN [entered EXCEPT !.handed_back = @ \cup {<<row, "locked">>}]
            ELSE IF logger_queue.insert
            THEN [entered EXCEPT !.handed_back = @ \cup {<<row, "inserting">>}]
            ELSE IF is_queue_full(pushed.batch_capacity, Len(pushed.queue))
            THEN spawn_flush(pushed, pushed.queue)
            ELSE pushed
    /\ UNCHANGED <<now, debug_build, routes, table_src, fails_in_row,
                   fresh_fails, req, updaters, stop_calls>>
    /\ UNCHANGED ingress_vars

\* LoggerQueue::flush_now, when it does not return early.
QueueFlushNow ==
    /\ ~ logger_queue.poisoned
    /\ ~ logger_queue.insert
    /\ logger_queue.queue # <<>>
    /\ logger_queue' = spawn_flush(logger_queue, logger_queue.queue)
    /\ UNCHANGED <<now, debug_build, routes, table_src, fails_in_row,
                   fresh_fails, req, updaters, stop_calls>>
    /\ UNCHANGED ingress_vars

\* The rows of a batch.
rows_of(rows) == {rows[k] : k \in 1..Len(rows)}

\* BigQueryTable::insert_all: Ok (no row to retry), a partial error (the rows
\* at the indexes of insert_errors), or an error of the whole request (every
\* row).
insert_all(rows, failed) == SelectSeq(rows, LAMBDA row : row \in failed)

\* A flush that forgets the rows to retry.
Flush_dropping_retries(failed) ==
    /\ ~ logger_queue.poisoned
    /\ \E rows \in logger_queue.flushes :
        /\ failed \subseteq rows_of(rows)
        /\ LET to_retry == insert_all(rows, failed)
               finished == [logger_queue EXCEPT
                                !.flushes = @ \ {rows},
                                !.insert = FALSE,
                                !.acknowledged = @ \cup (rows_of(rows) \ failed)]
           IN  logger_queue' =
                IF debug_build /\ logger_queue.queue # <<>>
                THEN [logger_queue EXCEPT !.flushes = @ \ {rows},
                                          !.poisoned = TRUE]
                ELSE IF to_retry = <<>> THEN finished
                ELSE [finished EXCEPT !.retries = Some(to_retry)]
    /\ UNCHANGED <<now, debug_build, routes, table_src, fails_in_row,
                   fresh_fails, req, updaters, stop_calls>>
    /\ UNCHANGED ingress_vars

\* LoggerQueue::flush after `insert_all(rows).await`: under the mutex, the
\* handle is cleared and the retries of a failed insert become the queue.
\* The debug_assert on the queue panics with the mutex held.
Flush(failed) ==
    /\ ~ logger_queue.poisoned
    /\ \E rows \in logger_queue.flushes :
        /\ failed \subseteq rows_of(rows)
        /\ LET to_retry == insert_all(rows, failed)
               finished == [logger_queue EXCEPT
                                !.flushes = @ \ {rows},
                                !.insert = FALSE,
                                !.acknowledged = @ \cup (rows_of(rows) \ failed)]
           IN  logger_queue' =
                IF debug_build /\ logger_queue.queue # <<>>
                THEN [logger_queue EXCEPT !.flushes = @ \ {rows},
                                          !.poisoned = TRUE]
                ELSE IF to_retry = <<>> THEN finished
                ELSE [finished EXCEPT !.queue = to_retry,
                                      !.retries = Some(to_retry)]
    /\ UNCHANGED <<now, debug_build, routes, table_src, fails_in_row,
                   fresh_fails, req, updaters, stop_calls>>
    /\ UNCHANGED ingress_vars

NextQueue ==
    \/ \E locked \in BOOLEAN : TryWrite(locked)
    \/ QueueFlushNow
    \/ \E failed \in SUBSET (1..MaxRows) : Flush(failed)

SpecQueue == InitQueue /\ [][NextQueue]_vars

----------------------------------------------------------------------------
(* Claims on SpecQueue. *)

TryWriteStep == logger_queue'.written # logger_queue.written

the_row == logger_queue'.written

\* C38: per LoggerQueue at most one insert is in flight at any time, and
\* while one is in flight try_write hands every row back to the caller, so
\* the queue stays empty until that insert finishes.
C38_OneInsertInFlight ==
    /\ [](/\ Cardinality(logger_queue.flushes) <= 1
          /\ logger_queue.insert <=> logger_queue.flushes # {}
          /\ logger_queue.flushes # {} => logger_queue.queue = <<>>)
    /\ [][(TryWriteStep /\ logger_queue.flushes # {}) =>
            /\ \E why \in {"locked", "inserting"} :
                    <<the_row, why>> \in logger_queue'.handed_back
            /\ the_row \notin logger_queue'.accepted
            /\ logger_queue'.queue = logger_queue.queue
            /\ logger_queue'.flushes = logger_queue.flushes
       ]_vars

\* C38 witness: an insert is in flight, and the last row was handed back
\* because of it.
C38_Witness ==
    /\ logger_queue.flushes # {}
    /\ logger_queue.queue = <<>>
    /\ <<logger_queue.written, "inserting">> \in logger_queue.handed_back

\* The rows in flight.
rows_in_flight == UNION {rows_of(rows) : rows \in logger_queue.flushes}

\* A flush task finishes.
FlushStep == logger_queue'.flushes # logger_queue.flushes
                /\ logger_queue'.flushes \subseteq logger_queue.flushes

\* C39: no row accepted by LoggerQueue::try_write is silently dropped: at
\* any time each accepted row is in the queue, is part of the in-flight
\* insert, or was acknowledged by a completed insert; rows that an insert
\* reports as failed go back to the queue.
C39_NoAcceptedRowDropped ==
    /\ [](logger_queue.accepted =
            rows_of(logger_queue.queue) \cup rows_in_flight
                \cup logger_queue.acknowledged)
    /\ [][(FlushStep /\ logger_queue'.retries # logger_queue.retries) =>
            logger_queue'.queue = unwrap(logger_queue'.retries)]_vars
    /\ [][(FlushStep /\ logger_queue'.queue # <<>>) =>
            logger_queue'.queue = unwrap(logger_queue'.retries)]_vars

\* C39 witness: of a batch of two rows, one was acknowledged and the other
\* is in the queue again after the insert failed for it.
C39_Witness ==
    /\ logger_queue.acknowledged # {}
    /\ is_some(logger_queue.retries)
    /\ logger_queue.queue = unwrap(logger_queue.retries)
    /\ logger_queue.flushes = {}

\* C40 as stated: every batch that a LoggerQueue hands to insert_all
\* contains at most batch_capacity rows, including batches sent after a
\* failed insert has put its rows back into the queue.
C40_BatchWithinCapacity ==
    logger_queue.largest <= logger_queue.batch_capacity

\* What holds instead: until an insert has failed, every batch handed to
\* insert_all contains at most batch_capacity rows.
C40_BatchWithinCapacityUntilFailure ==
    logger_queue.retries = None =>
        logger_queue.largest <= logger_queue.batch_capacity

\* C40 witness: after a failed insert put batch_capacity rows back into the
\* queue, a batch of batch_capacity + 1 rows is in flight.
C40_Witness ==
    /\ is_some(logger_queue.retries)
    /\ \E rows \in logger_queue.flushes :
            Len(rows) = logger_queue.batch_capacity + 1
====
